---------------------------- MODULE Spec2Model ----------------------------
(***************************************************************************)
(* A model of the tinydotnet managed-runtime core:                         *)
(*   - the verifier's type relations (src/src/dotnet/types.c),             *)
(*   - the single-pass CIL -> MIR translator (src/src/dotnet/jit/jit.c),   *)
(*     with its abstract stack, snapshots, exception-clause handling,      *)
(*   - an interpreter for the MIR instructions the translator emits, so    *)
(*     that run-time statements about the emitted code can be checked.     *)
(***************************************************************************)
EXTENDS Integers, Sequences, FiniteSets, TLC

VARIABLES
    pc,                     \* position: translating / running / types check
    method,                 \* ctx->method_info: the method being compiled
    il_ptr,                 \* jit_method: il_ptr
    il_offset,              \* jit_method: il_offset of the current instruction
    last_cf,                \* jit_method: last_cf
    stack,                  \* ctx->stack.entries
    pc_to_stack_snapshot,   \* ctx->pc_to_stack_snapshot (offset -> snapshot)
    clause_to_label,        \* ctx->clause_to_label (clause index -> entry)
    name_gen,               \* ctx->name_gen
    label_gen,              \* number of MIR labels created so far
    mir,                    \* the instructions appended to ctx->func
    err,                    \* err_t of jit_method
    mpc,                    \* interpreter: index of the next MIR instruction
    regs,                   \* interpreter: MIR register file
    heap,                   \* interpreter: type of every allocated object
    result,                 \* interpreter: the two-slot return value
    trail,                  \* interpreter: marks passed while running
    steps,                  \* interpreter: instructions executed so far
    lengths,                \* interpreter: the Length of every array handed in
    ty,                     \* types check: the types drawn
    rel,                    \* types check: the relation's answers
    threads,                \* concurrent callers: each thread's position and locals
    shared,                 \* concurrent callers: the memory the threads share
    assembly                \* jit_assembly: what the compilation has made and published

vars == << pc, method, il_ptr, il_offset, last_cf, stack, pc_to_stack_snapshot,
           clause_to_label, name_gen, label_gen, mir, err,
           mpc, regs, heap, result, trail, steps, lengths, ty, rel, threads, shared, assembly >>

-----------------------------------------------------------------------------
(***************************************************************************)
(* The type universe of a loaded assembly.  A type is named by a string;   *)
(* NULL stands for the C NULL System_Type (the type of ldnull).            *)
(***************************************************************************)

NULL == "NULL"

tSystem_Object == "Object"
tSystem_ValueType == "ValueType"
tSystem_Array == "Array"
tSystem_String == "String"
tSystem_Exception == "Exception"
tSystem_Boolean == "Boolean"
tSystem_Char == "Char"
tSystem_SByte == "SByte"
tSystem_Byte == "Byte"
tSystem_Int16 == "Int16"
tSystem_UInt16 == "UInt16"
tSystem_Int32 == "Int32"
tSystem_UInt32 == "UInt32"
tSystem_Int64 == "Int64"
tSystem_UInt64 == "UInt64"
tSystem_IntPtr == "IntPtr"
tSystem_UIntPtr == "UIntPtr"
tSystem_Single == "Single"
tSystem_Double == "Double"
tSystem_InvalidCastException == "InvalidCastException"
tSystem_OutOfMemoryException == "OutOfMemoryException"
tSystem_NullReferenceException == "NullReferenceException"
tSystem_DivideByZeroException == "DivideByZeroException"
tSystem_IndexOutOfRangeException == "IndexOutOfRangeException"

\* types defined by the loaded user assembly
tIFoo == "IFoo"             \* interface
tFoo == "Foo"               \* class Foo : Object, IFoo
tBar == "Bar"               \* class Bar : Foo
tMyEnum == "MyEnum"         \* enum MyEnum : Int32
tMyStruct == "MyStruct"     \* struct MyStruct

PrimitiveTypes ==
    { tSystem_Boolean, tSystem_Char, tSystem_SByte, tSystem_Byte, tSystem_Int16,
      tSystem_UInt16, tSystem_Int32, tSystem_UInt32, tSystem_Int64, tSystem_UInt64,
      tSystem_IntPtr, tSystem_UIntPtr, tSystem_Single, tSystem_Double }

ExceptionTypes ==
    { tSystem_Exception, tSystem_InvalidCastException, tSystem_OutOfMemoryException,
      tSystem_NullReferenceException, tSystem_DivideByZeroException,
      tSystem_IndexOutOfRangeException }

ClassTypes ==
    { tSystem_Object, tSystem_ValueType, tSystem_Array, tSystem_String, tFoo, tBar }
        \cup ExceptionTypes

InterfaceTypes == { tIFoo }

EnumTypes == { tMyEnum }

StructTypes == { tMyStruct }

NamedTypes ==
    PrimitiveTypes \cup ClassTypes \cup InterfaceTypes \cup EnumTypes \cup StructTypes

\* get_array_type / get_by_ref_type name the derivative "T[]" / "T&"
get_array_type(type) == type \o "[]"

get_by_ref_type(type) == type \o "&"

\* the element types for which the assembly uses an array type
ArrayElementTypes ==
    { tSystem_Int32, tSystem_UInt32, tSystem_Boolean, tSystem_SByte,
      tSystem_String, tSystem_Object, tMyEnum, tBar }

ArrayTypes == { get_array_type(T) : T \in ArrayElementTypes }

\* the referent types for which the assembly uses a by-ref type
ByRefReferentTypes ==
    { tSystem_Int32, tSystem_Int16, tSystem_SByte, tSystem_Boolean,
      tSystem_String, tSystem_Object, tMyStruct }

ByRefTypes == { get_by_ref_type(T) : T \in ByRefReferentTypes }

Types == NamedTypes \cup ArrayTypes \cup ByRefTypes

TypesOrNull == Types \cup { NULL }

IsArray(T) == T \in ArrayTypes

IsByRef(T) == T \in ByRefTypes

IsValueType(T) == T \in PrimitiveTypes \cup EnumTypes \cup StructTypes

\* type->ElementType: the element of an array, the underlying type of an enum
ElementType(T) ==
    IF T \in ArrayTypes THEN CHOOSE E \in ArrayElementTypes : get_array_type(E) = T
    ELSE IF T \in EnumTypes THEN tSystem_Int32
    ELSE NULL

\* type->BaseType: the parent from the metadata; tSystem_Array for an array
\* (get_array_type) and the referent for a by-ref (get_by_ref_type)
BaseType(T) ==
    IF T \in ArrayTypes THEN tSystem_Array
    ELSE IF T \in ByRefTypes THEN CHOOSE E \in ByRefReferentTypes : get_by_ref_type(E) = T
    ELSE IF T = tSystem_Object \/ T \in InterfaceTypes THEN NULL
    ELSE IF T \in PrimitiveTypes \cup StructTypes \cup EnumTypes THEN tSystem_ValueType
    ELSE IF T = tBar THEN tFoo
    ELSE IF T \in ExceptionTypes \ { tSystem_Exception } THEN tSystem_Exception
    ELSE tSystem_Object

\* type->InterfaceImpls: the interfaces in the type's interface-impl list
InterfaceImpls(T) ==
    IF T \in { tFoo, tBar } THEN { tIFoo } ELSE {}

STACK_TYPE_O == "STACK_TYPE_O"
STACK_TYPE_INT32 == "STACK_TYPE_INT32"
STACK_TYPE_INT64 == "STACK_TYPE_INT64"
STACK_TYPE_INTPTR == "STACK_TYPE_INTPTR"
STACK_TYPE_VALUE_TYPE == "STACK_TYPE_VALUE_TYPE"
STACK_TYPE_FLOAT == "STACK_TYPE_FLOAT"
STACK_TYPE_REF == "STACK_TYPE_REF"

\* type_get_stack_type: type->StackType, STACK_TYPE_O for the null type
type_get_stack_type(T) ==
    IF T = NULL THEN STACK_TYPE_O
    ELSE IF T \in ByRefTypes THEN STACK_TYPE_REF
    ELSE IF T \in { tSystem_Int64, tSystem_UInt64 } THEN STACK_TYPE_INT64
    ELSE IF T \in { tSystem_IntPtr, tSystem_UIntPtr } THEN STACK_TYPE_INTPTR
    ELSE IF T \in { tSystem_Single, tSystem_Double } THEN STACK_TYPE_FLOAT
    ELSE IF T \in PrimitiveTypes \cup EnumTypes THEN STACK_TYPE_INT32
    ELSE IF T \in StructTypes THEN STACK_TYPE_VALUE_TYPE
    ELSE STACK_TYPE_O

type_is_object_ref(T) == type_get_stack_type(T) = STACK_TYPE_O

type_is_interface(T) == T \in InterfaceTypes

type_is_enum(T) == T \in EnumTypes

-----------------------------------------------------------------------------
(***************************************************************************)
(* Verifier primitives (types.c).                                          *)
(***************************************************************************)

type_get_underlying_type(T) ==
    IF type_is_enum(T) THEN ElementType(T) ELSE T

type_get_reduced_type(T0) ==
    LET T == type_get_underlying_type(T0) IN
    IF T = tSystem_Byte THEN tSystem_SByte
    ELSE IF T = tSystem_UInt16 THEN tSystem_Int16
    ELSE IF T = tSystem_UInt32 THEN tSystem_Int32
    ELSE IF T = tSystem_UInt64 THEN tSystem_Int64
    ELSE IF T = tSystem_UIntPtr THEN tSystem_IntPtr
    ELSE T

RECURSIVE type_get_verification_type(_)
type_get_verification_type(T0) ==
    LET T == type_get_reduced_type(T0) IN
    IF T = tSystem_Boolean THEN tSystem_SByte
    ELSE IF T = tSystem_Char THEN tSystem_Int16
    ELSE IF T # NULL /\ IsByRef(T)
        THEN get_by_ref_type(type_get_verification_type(BaseType(T)))
    ELSE T

type_get_intermediate_type(T0) ==
    LET T == type_get_verification_type(T0) IN
    IF T = tSystem_SByte \/ T = tSystem_Int16 THEN tSystem_Int32 ELSE T

type_is_pointer_element_compatible_with(T, U) ==
    type_get_verification_type(T) = type_get_verification_type(U)

type_get_direct_base_class(T) ==
    IF T # NULL /\ IsArray(T) THEN tSystem_Array
    ELSE IF type_is_object_ref(T) \/ (T # NULL /\ type_is_interface(T)) THEN tSystem_Object
    ELSE IF T # NULL /\ IsValueType(T) THEN tSystem_ValueType
    ELSE NULL

type_is_interface_directly_implemented_by(I, T) ==
    /\ type_is_interface(I)
    /\ I \in InterfaceImpls(T)

\* the while loop of type_is_compatible_with: Base = Base->BaseType until U
RECURSIVE BaseChainReaches(_, _)
BaseChainReaches(Base, U) ==
    IF Base = NULL THEN FALSE
    ELSE IF Base = U THEN TRUE
    ELSE BaseChainReaches(BaseType(Base), U)

RECURSIVE type_is_compatible_with(_, _)
type_is_array_element_compatible_with(T, U) ==
    LET V == type_get_underlying_type(T)
        W == type_get_underlying_type(U)
    IN  \/ type_is_compatible_with(V, W)
        \/ type_get_verification_type(V) = type_get_verification_type(W)

type_is_compatible_with(T, U) ==
    IF T = U THEN TRUE
    ELSE IF T = NULL \/ U = NULL THEN FALSE
    ELSE \/ /\ type_is_object_ref(T)
            /\ \/ U = type_get_direct_base_class(T)
               \/ type_is_interface_directly_implemented_by(U, T)
         \/ /\ ~IsValueType(T)
            /\ BaseChainReaches(BaseType(T), U)
         \/ /\ IsArray(T) /\ IsArray(U)
            /\ type_is_array_element_compatible_with(ElementType(T), ElementType(U))
         \/ /\ IsByRef(T) /\ IsByRef(U)
            /\ type_is_pointer_element_compatible_with(T, U)

type_is_assignable_to(T, U) ==
    \/ T = U
    \/ type_get_intermediate_type(T) = type_get_intermediate_type(U)
    \/ type_is_compatible_with(T, U)
    \/ (T = NULL /\ type_is_object_ref(U))

type_is_verifier_assignable_to(Q, R) ==
    LET T == type_get_verification_type(Q)
        U == type_get_verification_type(R)
    IN  \/ T = U
        \/ type_is_assignable_to(T, U)

-----------------------------------------------------------------------------
(***************************************************************************)
(* MIR instructions and operands, as the translator builds them.           *)
(* Every instruction carries the IL offset it was emitted for (il) and the *)
(* role it plays there (tag); both are bookkeeping, not operands.           *)
(***************************************************************************)

NO_ERROR == "NO_ERROR"
ERROR_CHECK_FAILED == "ERROR_CHECK_FAILED"

\* IS_ERROR(err)
IS_ERROR(e) == e # NO_ERROR

\* MIR_new_reg_op / MIR_new_int_op / MIR_new_ref_op / MIR_new_label_op
RegOp(r) == [k |-> "reg", v |-> r, n |-> ""]
IntOp(i) == [k |-> "int", v |-> i, n |-> ""]
RefOp(name) == [k |-> "ref", v |-> 0, n |-> name]
LabelOp(l) == [k |-> "label", v |-> l, n |-> ""]

\* MIR_new_insn / MIR_new_call_insn / MIR_new_ret_insn / a label
Insn(code, ops) == [op |-> code, ops |-> ops, il |-> 0, tag |-> ""]

\* ctx->exception_reg: the function register named "exception"
exception_reg == 0

\* MIR_reg(ctx, "arg<i>", func): the register of parameter i
ArgReg(i) == 0 - (i + 1)

\* a label that was never created (a NULL MIR_label_t)
NoLabel == 0

(***************************************************************************)
(* The translation context.  The C helpers take jit_context_t* and return  *)
(* err_t; here a helper maps a context record to the context it leaves     *)
(* behind, err included.  out carries a helper's out-parameter.            *)
(***************************************************************************)

Ok(c) == c.err = NO_ERROR

\* the value v named once and handed to what follows
With(v, F(_)) == CHOOSE r \in { F(y) : y \in { v } } : TRUE

\* CHECK_AND_RETHROW(call): when the call failed, goto cleanup with its err, else
\* go on with the context the call left
CHECK_AND_RETHROW(v, F(_)) ==
    CHOOSE r \in { IF Ok(y) THEN F(y) ELSE y : y \in { v } } : TRUE

\* CHECK_FAIL(): err = ERROR_CHECK_FAILED and goto cleanup
CHECK_FAIL(c) == [c EXCEPT !.err = ERROR_CHECK_FAILED]

\* CHECK(cond): on failure err = ERROR_CHECK_FAILED and goto cleanup
Check(c, cond) == IF cond THEN c ELSE CHECK_FAIL(c)

\* MIR_append_insn(ctx->context, ctx->func, insn)
Emit(c, insn, tag) ==
    [c EXCEPT !.mir = Append(@, [insn EXCEPT !.il = c.il_offset, !.tag = tag])]

\* MIR_new_label(ctx->context)
NewLabel(c) == [c EXCEPT !.label_gen = @ + 1, !.out = c.label_gen + 1]

\* get_mir_type restricted to what new_reg asks: is the type passed as a block
IsBlk(type) ==
    /\ type # NULL
    /\ \/ type_get_stack_type(type) = STACK_TYPE_VALUE_TYPE
       \/ (type_get_stack_type(type) # STACK_TYPE_FLOAT /\ type_is_interface(type))

\* new_reg: s<++name_gen>; a block type gets an ALLOCA prepended to the function
new_reg(c, type) ==
    IF IsBlk(type)
    THEN [c EXCEPT !.name_gen = @ + 1, !.out = c.name_gen + 1,
                   !.mir = << [Insn("ALLOCA", << RegOp(c.name_gen + 1) >>)
                                  EXCEPT !.il = c.il_offset] >> \o @]
    ELSE [c EXCEPT !.name_gen = @ + 1, !.out = c.name_gen + 1]

MaxStackSize(c) == c.method.MaxStackSize

\* stack_pop: out is the popped entry
stack_pop(c) ==
    IF Len(c.stack) > 0
    THEN [c EXCEPT !.stack = SubSeq(@, 1, Len(@) - 1), !.out = c.stack[Len(c.stack)]]
    ELSE CHECK_FAIL(c)

\* stack_push: out is the register of the new entry
stack_push(c, type) ==
    IF Len(c.stack) < MaxStackSize(c)
    THEN With(new_reg(c, type), LAMBDA c1 :
            [c1 EXCEPT !.stack = Append(@, [type |-> type, reg |-> c1.out])])
    ELSE CHECK_FAIL(c)

\* the loop of stack_merge from slot i on: the snapshot entries it leaves behind
\* and whether a CHECK failed on the way
RECURSIVE MergeFrom(_, _, _, _)
MergeFrom(cur, snap, i, allow_change) ==
    IF i > Len(snap) THEN [ok |-> TRUE, entries |-> snap]
    ELSE IF type_is_verifier_assignable_to(cur[i].type, snap[i].type)
    THEN \* U = S: the snapshot keeps its type in both modes
         MergeFrom(cur, snap, i + 1, allow_change)
    ELSE IF type_is_verifier_assignable_to(snap[i].type, cur[i].type)
    THEN IF allow_change
         THEN With([snap EXCEPT ![i].type = cur[i].type], LAMBDA merged :
                 MergeFrom(cur, merged, i + 1, allow_change))
         ELSE [ok |-> FALSE, entries |-> snap]
    ELSE [ok |-> FALSE, entries |-> snap]

\* a stack_merge that merges whatever allow_change says
stack_merge_always(c, key, allow_change) ==
    IF Len(c.snaps[key].stack) # Len(c.stack) THEN CHECK_FAIL(c)
    ELSE With(MergeFrom(c.stack, c.snaps[key].stack, 1, TRUE), LAMBDA m :
            [c EXCEPT !.snaps[key].stack = m.entries,
                      !.err = IF m.ok THEN @ ELSE ERROR_CHECK_FAILED])

\* stack_merge(ctx, &pc_to_stack_snapshot[key].stack, allow_change): the entries
\* array is shared with the stored snapshot, so the merge writes the snapshot
stack_merge(c, key, allow_change) ==
    IF Len(c.snaps[key].stack) # Len(c.stack) THEN CHECK_FAIL(c)
    ELSE With(MergeFrom(c.stack, c.snaps[key].stack, 1, allow_change), LAMBDA m :
            [c EXCEPT !.snaps[key].stack = m.entries,
                      !.err = IF m.ok THEN @ ELSE ERROR_CHECK_FAILED])

\* hmputs(ctx->pc_to_stack_snapshot, snapshot)
PutSnapshot(c, key, label, entries) ==
    [c EXCEPT !.snaps = (key :> [stack |-> entries, label |-> label]) @@ @]

\* the label of the snapshot at il_target as the out-parameter
SnapshotLabel(c, il_target) == [c EXCEPT !.out = c.snaps[il_target].label]

\* jit_resolve_branch: out is the label of il_target
jit_resolve_branch(c, offset, il_target) ==
    IF il_target >= offset
    THEN IF il_target \notin DOMAIN c.snaps
         THEN With(NewLabel(c), LAMBDA c1 : PutSnapshot(c1, il_target, c1.out, c.stack))
         ELSE CHECK_AND_RETHROW(stack_merge(c, il_target, TRUE), LAMBDA c1 :
                 SnapshotLabel(c1, il_target))
    ELSE IF il_target \notin DOMAIN c.snaps
         THEN CHECK_FAIL(c)
         ELSE CHECK_AND_RETHROW(stack_merge(c, il_target, FALSE), LAMBDA c1 :
                 SnapshotLabel(c1, il_target))

Clauses(c) == c.method.ExceptionHandlingClauses

InTry(clause, off) ==
    clause.TryOffset <= off /\ off < clause.TryOffset + clause.TryLength

InHandler(clause, off) ==
    clause.HandlerOffset <= off /\ off < clause.HandlerOffset + clause.HandlerLength

\* the loop of jit_branch_point from clause i on: TRUE when no CHECK fails
RECURSIVE BranchRegionsOkFrom(_, _, _, _)
BranchRegionsOkFrom(exceptions, i, offset, il_target) ==
    IF i > Len(exceptions) THEN TRUE
    ELSE IF InTry(exceptions[i], offset)
    THEN InTry(exceptions[i], il_target)                \* and break
    ELSE IF InTry(exceptions[i], il_target) THEN FALSE
    ELSE IF InHandler(exceptions[i], offset)
    THEN InHandler(exceptions[i], il_target)            \* and break
    ELSE IF InHandler(exceptions[i], il_target) THEN FALSE
    ELSE BranchRegionsOkFrom(exceptions, i + 1, offset, il_target)

\* jit_branch_point: out is the label of il_target
jit_branch_point(c, offset, il_target) ==
    IF BranchRegionsOkFrom(Clauses(c), 1, offset, il_target)
    THEN jit_resolve_branch(c, offset, il_target)
    ELSE CHECK_FAIL(c)

-----------------------------------------------------------------------------
(***************************************************************************)
(* Exceptions: throwing, allocating, run-time checks.                      *)
(***************************************************************************)

COR_ILEXCEPTION_CLAUSE_EXCEPTION == "EXCEPTION"
COR_ILEXCEPTION_CLAUSE_FILTER == "FILTER"
COR_ILEXCEPTION_CLAUSE_FINALLY == "FINALLY"
COR_ILEXCEPTION_CLAUSE_FAULT == "FAULT"

\* jit_jump_to_exception_clause; clause is the index in the clause table
jit_jump_to_exception_clause(c, clause) ==
    LET label == c.clause_to_label[clause].value
        cl == Clauses(c)[clause]
    IN  IF cl.Flags = COR_ILEXCEPTION_CLAUSE_EXCEPTION
        THEN IF cl.HandlerOffset \notin DOMAIN c.snaps THEN CHECK_FAIL(c)
             ELSE IF Len(c.snaps[cl.HandlerOffset].stack) # 1 THEN CHECK_FAIL(c)
             ELSE IF c.snaps[cl.HandlerOffset].stack[1].type # cl.CatchType
             THEN CHECK_FAIL(c)
             ELSE With(Emit(c, Insn("MOV", << RegOp(c.snaps[cl.HandlerOffset].stack[1].reg),
                                              RegOp(exception_reg) >>), "throw.mov"),
                       LAMBDA c1 : Emit(c1, Insn("JMP", << LabelOp(label) >>), "throw.jmp"))
        ELSE Emit(c, Insn("JMP", << LabelOp(label) >>), "throw.jmp")

\* the while loop of jit_throw: does the base chain of thrown reach catch_type
RECURSIVE ThrownReaches(_, _)
ThrownReaches(thrown, catch_type) ==
    IF thrown = NULL THEN FALSE
    ELSE IF thrown = catch_type THEN TRUE
    ELSE ThrownReaches(BaseType(thrown), catch_type)

\* the clause loop of jit_throw from clause i on; out is my_clause (0 for NULL)
RECURSIVE ThrowFrom(_, _, _, _)
ThrowFrom(c, i, type, temp_reg) ==
    IF i > Len(Clauses(c)) THEN [c EXCEPT !.out = 0]
    ELSE IF ~InTry(Clauses(c)[i], c.il_offset) THEN ThrowFrom(c, i + 1, type, temp_reg)
    ELSE IF Clauses(c)[i].Flags \in { COR_ILEXCEPTION_CLAUSE_FAULT,
                                     COR_ILEXCEPTION_CLAUSE_FINALLY }
    THEN [c EXCEPT !.out = i]
    ELSE IF Clauses(c)[i].Flags # COR_ILEXCEPTION_CLAUSE_EXCEPTION THEN CHECK_FAIL(c)
    ELSE IF type # NULL
    THEN IF ThrownReaches(type, Clauses(c)[i].CatchType)
         THEN [c EXCEPT !.out = i]
         ELSE ThrowFrom(c, i + 1, type, temp_reg)
    ELSE With(IF temp_reg = 0 THEN new_reg(c, tSystem_Boolean) ELSE c, LAMBDA c1 :
         With(IF temp_reg = 0 THEN c1.out ELSE temp_reg, LAMBDA t :
         With(NewLabel(c1), LAMBDA c2 :
         With(Emit(c2, Insn("CALL", << RefOp("is_instance"), RegOp(t),
                                       RegOp(exception_reg),
                                       RefOp(Clauses(c)[i].CatchType) >>),
                   "throw.isinst"), LAMBDA c3 :
         With(Emit(c3, Insn("BF", << LabelOp(c2.out), RegOp(t) >>), ""), LAMBDA c4 :
         CHECK_AND_RETHROW(jit_jump_to_exception_clause(c4, i), LAMBDA c5 :
         With(Emit(c5, Insn("LABEL", << LabelOp(c2.out) >>), ""), LAMBDA c6 :
         ThrowFrom(c6, i + 1, type, t))))))))

\* nres of the function: 2 when it returns a value that is not a block
Nres(c) ==
    IF c.method.ReturnType # NULL /\ ~IsBlk(c.method.ReturnType) THEN 2 ELSE 1

\* MIR_new_ret_insn(ctx, nres, ops...): only the first nres operands are taken
RetInsn(nres, ops) == Insn("RET", SubSeq(ops, 1, nres))

\* jit_throw
jit_throw(c, type) ==
    IF ~type_is_object_ref(type) THEN CHECK_FAIL(c)
    ELSE CHECK_AND_RETHROW(ThrowFrom(c, 1, type, 0), LAMBDA c1 :
            IF c1.out = 0
            THEN Emit(c1, RetInsn(Nres(c1), << RegOp(exception_reg), IntOp(0) >>),
                      "throw.ret")
            ELSE jit_jump_to_exception_clause(c1, c1.out))

\* the types that have a default instance constructor registered in ctx->functions
HasDefaultCtor(type) == type \in ExceptionTypes \cup { tSystem_Object, tFoo, tBar }

\* type->ManagedSize as an operand
SizeOp(type) == [k |-> "size", v |-> 0, n |-> type]

\* the call of gc_new that jit_new emits
GcNewCall(c, res, type, size) ==
    IF IsArray(type)
    THEN With(Emit(c, Insn("CALL", << RefOp("get_array_type"), RegOp(res),
                                      RefOp(ElementType(type)) >>), ""), LAMBDA c1 :
            Emit(c1, Insn("CALL", << RefOp("gc_new"), RegOp(res), RegOp(res), size >>),
                 "gc_new"))
    ELSE Emit(c, Insn("CALL", << RefOp("gc_new"), RegOp(res), RefOp(type), size >>),
              "gc_new")

\* a jit_new that does not test what gc_new returned
jit_new_unchecked(c, res, type, size) == GcNewCall(c, res, type, size)

RECURSIVE jit_throw_new(_, _)

\* jit_new; the recursion through jit_throw_new ends at tSystem_OutOfMemoryException
RECURSIVE jit_new(_, _, _, _)
jit_new(c, res, type, size) ==
    With(GcNewCall(c, res, type, size), LAMBDA c1 :
        IF type # tSystem_OutOfMemoryException
        THEN With(NewLabel(c1), LAMBDA c2 :
             With(Emit(c2, Insn("BT", << LabelOp(c2.out), RegOp(res) >>), "gc_new.check"),
                  LAMBDA c3 :
             CHECK_AND_RETHROW(jit_throw_new(c3, tSystem_OutOfMemoryException), LAMBDA c4 :
             Emit(c4, Insn("LABEL", << LabelOp(c2.out) >>), ""))))
        ELSE c1)

\* jit_throw_new
jit_throw_new(c, type) ==
    IF ~HasDefaultCtor(type) THEN CHECK_FAIL(c)
    ELSE With(new_reg(c, type), LAMBDA c1 :
         With(c1.out, LAMBDA exception_obj :
         CHECK_AND_RETHROW(jit_new(c1, exception_obj, type, SizeOp(type)), LAMBDA c2 :
         With(Emit(c2, Insn("CALL", << RefOp(".ctor"), RegOp(exception_reg),
                                       RegOp(exception_obj) >>), "ctor"), LAMBDA c3 :
         With(NewLabel(c3), LAMBDA c4 :
         With(Emit(c4, Insn("BF", << LabelOp(c4.out), RegOp(exception_reg) >>), ""),
              LAMBDA c5 :
         CHECK_AND_RETHROW(jit_throw(c5, NULL), LAMBDA c6 :
         With(Emit(c6, Insn("LABEL", << LabelOp(c4.out) >>), ""), LAMBDA c7 :
         With(Emit(c7, Insn("MOV", << RegOp(exception_reg), RegOp(exception_obj) >>),
                   "throw_new"), LAMBDA c8 :
         jit_throw(c8, type))))))))))

\* jit_null_check
jit_null_check(c, reg, type) ==
    IF type = NULL THEN jit_throw_new(c, tSystem_NullReferenceException)
    ELSE IF ~type_is_object_ref(type) THEN CHECK_FAIL(c)
    ELSE With(NewLabel(c), LAMBDA c1 :
         With(IF type_is_interface(type) THEN new_reg(c1, tSystem_Object) ELSE c1,
              LAMBDA c2 :
         With(IF type_is_interface(type)
              THEN Emit(c2, Insn("MOV", << RegOp(c2.out),
                                           [k |-> "mem", v |-> reg, n |-> "this"] >>), "")
              ELSE c2, LAMBDA c3 :
         With(Emit(c3, Insn("BT", << LabelOp(c1.out),
                                     RegOp(IF type_is_interface(type) THEN c2.out ELSE reg) >>),
                   "null.check"), LAMBDA c4 :
         CHECK_AND_RETHROW(jit_throw_new(c4, tSystem_NullReferenceException), LAMBDA c5 :
         Emit(c5, Insn("LABEL", << LabelOp(c1.out) >>), ""))))))

-----------------------------------------------------------------------------
(***************************************************************************)
(* Numeric operations and compare-and-branch.                              *)
(***************************************************************************)

MemOp(base, field) == [k |-> "mem", v |-> base, n |-> field]

\* the instruction code after code += 1 / += 2 / += 3: the 32-bit, float and
\* double variant of a MIR instruction
Code32(code) == code \o "S"

CodeF(code) == "F" \o code

CodeD(code) == "D" \o code

\* jit_number_inscode
jit_number_inscode(type) ==
    IF type = tSystem_Single THEN "FMOV"
    ELSE IF type = tSystem_Double THEN "DMOV"
    ELSE "MOV"

DivCodes == { "DIV", "UDIV", "MOD", "UMOD" }

\* the zero guard jit_binary_numeric_operation emits in front of a division
DivGuard(c, label, value2_reg) ==
    Emit(c, Insn("BT", << LabelOp(label), RegOp(exception_reg) >>), "div.check")

Top(c) == c.stack[Len(c.stack)]

\* jit_binary_numeric_operation from the type switch on: v1, v2 are the popped
\* entries
BinaryNumericTyped(c, code, integer_only, v1, v2) ==
    LET t1 == type_get_stack_type(v1.type)
        t2 == type_get_stack_type(v2.type)
        Fin(pushed, cd, r1, r2) ==
            CHECK_AND_RETHROW(pushed, LAMBDA cc :
                Emit(cc, Insn(cd, << RegOp(Top(cc).reg), RegOp(r1), RegOp(r2) >>), "arith"))
        Uext(cc, r) == Emit(cc, Insn("UEXT32", << RegOp(r), RegOp(r) >>), "uext")
        F2D(cc, r) == Emit(cc, Insn("F2D", << RegOp(Top(cc).reg), RegOp(r) >>), "")
    IN  CASE t1 = STACK_TYPE_INT32 ->
                IF t2 = STACK_TYPE_INT32
                THEN Fin(stack_push(c, tSystem_Int32), Code32(code), v1.reg, v2.reg)
                ELSE IF t2 # STACK_TYPE_INTPTR THEN CHECK_FAIL(c)
                ELSE CHECK_AND_RETHROW(stack_push(c, tSystem_IntPtr), LAMBDA c1 :
                        Fin(Uext(c1, v1.reg), code, v1.reg, v2.reg))
          [] t1 = STACK_TYPE_INT64 ->
                IF t2 # STACK_TYPE_INT64 THEN CHECK_FAIL(c)
                ELSE Fin(stack_push(c, tSystem_Int64), code, v1.reg, v2.reg)
          [] t1 = STACK_TYPE_INTPTR ->
                CHECK_AND_RETHROW(stack_push(c, tSystem_IntPtr), LAMBDA c1 :
                    IF t2 = STACK_TYPE_INT32
                    THEN Fin(Uext(c1, v2.reg), code, v1.reg, v2.reg)
                    ELSE IF t2 # STACK_TYPE_INTPTR THEN CHECK_FAIL(c1)
                    ELSE Fin(c1, code, v1.reg, v2.reg))
          [] t1 = STACK_TYPE_FLOAT ->
                IF integer_only THEN CHECK_FAIL(c)
                ELSE IF v1.type = tSystem_Single
                THEN IF v2.type = tSystem_Single
                     THEN Fin(stack_push(c, tSystem_Single), CodeF(code), v1.reg, v2.reg)
                     ELSE IF v2.type # tSystem_Double THEN CHECK_FAIL(c)
                     ELSE CHECK_AND_RETHROW(stack_push(c, tSystem_Double), LAMBDA c1 :
                             Fin(F2D(c1, v1.reg), CodeD(code), Top(c1).reg, v2.reg))
                ELSE IF v1.type # tSystem_Double THEN CHECK_FAIL(c)
                ELSE CHECK_AND_RETHROW(stack_push(c, tSystem_Double), LAMBDA c1 :
                        IF v2.type = tSystem_Single
                        THEN Fin(F2D(c1, v2.reg), CodeD(code), v1.reg, Top(c1).reg)
                        ELSE IF v2.type # tSystem_Double THEN CHECK_FAIL(c1)
                        ELSE Fin(c1, CodeD(code), v1.reg, v2.reg))
          [] OTHER -> CHECK_FAIL(c)

\* jit_binary_numeric_operation
jit_binary_numeric_operation(c, code, integer_only) ==
    CHECK_AND_RETHROW(stack_pop(c), LAMBDA p2 :
    CHECK_AND_RETHROW(stack_pop(p2), LAMBDA p1 :
        IF code \in DivCodes
        THEN With(NewLabel(p1), LAMBDA c1 :
             With(DivGuard(c1, c1.out, p2.out.reg), LAMBDA c2 :
             CHECK_AND_RETHROW(jit_throw_new(c2, tSystem_DivideByZeroException), LAMBDA c3 :
             With(Emit(c3, Insn("LABEL", << LabelOp(c1.out) >>), ""), LAMBDA c4 :
             BinaryNumericTyped(c4, code, integer_only, p1.out, p2.out)))))
        ELSE BinaryNumericTyped(p1, code, integer_only, p1.out, p2.out)))

\* jit_compare_branch from the type switch on: v1, v2 are the popped entries and
\* c.out the label of the target
CompareBranchTyped(c, code, v1, v2) ==
    LET label == c.out
        t1 == type_get_stack_type(v1.type)
        t2 == type_get_stack_type(v2.type)
        Fin(cc, cd, r1, r2) ==
            Emit(cc, Insn(cd, << LabelOp(label), RegOp(r1), RegOp(r2) >>), "branch")
        Uext(cc, r) == Emit(cc, Insn("UEXT32", << RegOp(r), RegOp(r) >>), "uext")
        Widen(r, F(_, _)) ==
            With(new_reg(c, tSystem_Double), LAMBDA c2 :
            With(Emit(c2, Insn("F2D", << RegOp(c2.out), RegOp(r) >>), ""), LAMBDA c3 :
            F(c3, c2.out)))
    IN  CASE t1 = STACK_TYPE_INT32 ->
                IF t2 = STACK_TYPE_INT32 THEN Fin(c, Code32(code), v1.reg, v2.reg)
                ELSE IF t2 # STACK_TYPE_INTPTR THEN CHECK_FAIL(c)
                ELSE With(Uext(c, v1.reg), LAMBDA c2 : Fin(c2, code, v1.reg, v2.reg))
          [] t1 = STACK_TYPE_INT64 ->
                IF t2 # STACK_TYPE_INT64 THEN CHECK_FAIL(c) ELSE Fin(c, code, v1.reg, v2.reg)
          [] t1 = STACK_TYPE_INTPTR ->
                IF t2 = STACK_TYPE_INT32
                THEN With(Uext(c, v2.reg), LAMBDA c2 : Fin(c2, code, v1.reg, v2.reg))
                ELSE IF t2 # STACK_TYPE_INTPTR THEN CHECK_FAIL(c)
                ELSE Fin(c, code, v1.reg, v2.reg)
          [] t1 = STACK_TYPE_FLOAT ->
                IF v2.type \notin { tSystem_Single, tSystem_Double } THEN CHECK_FAIL(c)
                ELSE IF v1.type = tSystem_Single
                THEN IF v2.type = tSystem_Single
                     THEN Fin(c, CodeF(code), v1.reg, v2.reg)
                     ELSE Widen(v1.reg, LAMBDA c3, r : Fin(c3, CodeD(code), r, v2.reg))
                ELSE IF v2.type = tSystem_Single
                THEN Widen(v2.reg, LAMBDA c3, r : Fin(c3, CodeD(code), v1.reg, v2.reg))
                ELSE Fin(c, CodeD(code), v1.reg, v2.reg)
          [] t1 = STACK_TYPE_O ->
                IF t2 # STACK_TYPE_O THEN CHECK_FAIL(c)
                ELSE IF code \notin { "BEQ", "BNE" } THEN CHECK_FAIL(c)
                ELSE IF type_is_interface(v2.type) \/ type_is_interface(v1.type)
                THEN CHECK_FAIL(c)
                ELSE Fin(c, code, v1.reg, v2.reg)
          [] t1 = STACK_TYPE_REF ->
                IF t2 # STACK_TYPE_REF THEN CHECK_FAIL(c) ELSE Fin(c, code, v1.reg, v2.reg)
          [] OTHER -> CHECK_FAIL(c)

\* jit_compare_branch
jit_compare_branch(c, code, il_target) ==
    CHECK_AND_RETHROW(stack_pop(c), LAMBDA p2 :
    CHECK_AND_RETHROW(stack_pop(p2), LAMBDA p1 :
    CHECK_AND_RETHROW(jit_branch_point(p1, c.il_offset, il_target), LAMBDA c1 :
    CompareBranchTyped(c1, code, p1.out, p2.out))))

-----------------------------------------------------------------------------
(***************************************************************************)
(* The opcode cases of jit_method.  The methods translated here are        *)
(* static, so argument 0 is parameter 0.                                   *)
(***************************************************************************)

\* case CEE_LDARG_0 .. CEE_LDARG
CEE_LDARG(c, operand_i32) ==
    IF ~(operand_i32 < Len(c.method.Parameters)) THEN CHECK_FAIL(c)
    ELSE LET arg_type == c.method.Parameters[operand_i32 + 1]
             arg_stack_type == type_get_intermediate_type(arg_type)
             st == type_get_stack_type(arg_stack_type)
         IN  CHECK_AND_RETHROW(stack_push(c, arg_stack_type), LAMBDA c1 :
                 IF st = STACK_TYPE_VALUE_TYPE
                    \/ (st = STACK_TYPE_O /\ type_is_interface(arg_stack_type))
                 THEN Emit(c1, Insn("MEMCPY", << RegOp(Top(c1).reg),
                                                 RegOp(ArgReg(operand_i32)) >>), "")
                 ELSE Emit(c1, Insn(jit_number_inscode(arg_stack_type),
                                    << RegOp(Top(c1).reg), RegOp(ArgReg(operand_i32)) >>),
                           ""))

\* case CEE_LDC_I4_M1 .. CEE_LDC_I4
CEE_LDC_I4(c, operand_i32) ==
    CHECK_AND_RETHROW(stack_push(c, tSystem_Int32), LAMBDA c1 :
        Emit(c1, Insn("MOV", << RegOp(Top(c1).reg), IntOp(operand_i32) >>), ""))

\* case CEE_LDNULL
CEE_LDNULL(c) ==
    CHECK_AND_RETHROW(stack_push(c, NULL), LAMBDA c1 :
        Emit(c1, Insn("MOV", << RegOp(Top(c1).reg), IntOp(0) >>), ""))

\* case CEE_POP
CEE_POP(c) == stack_pop(c)

\* the object case CEE_NEWOBJ constructs: out is << number_reg, this_reg >>
NewobjThis(c, operand_type) ==
    IF ~IsValueType(operand_type)
    THEN CHECK_AND_RETHROW(jit_new(c, Top(c).reg, operand_type, SizeOp(operand_type)),
                           LAMBDA c2 : [c2 EXCEPT !.out = << Top(c).reg, Top(c).reg >>])
    ELSE IF type_get_stack_type(operand_type) # STACK_TYPE_VALUE_TYPE
    THEN With(new_reg(c, tSystem_IntPtr), LAMBDA n :
         With([n EXCEPT !.mir = << [Insn("ALLOCA", << RegOp(n.out) >>)
                                       EXCEPT !.il = c.il_offset] >> \o @], LAMBDA a :
         With(Emit(a, Insn("ZEROFILL", << RegOp(n.out) >>), ""), LAMBDA z :
         [z EXCEPT !.out = << Top(c).reg, n.out >>])))
    ELSE With(Emit(c, Insn("ZEROFILL", << RegOp(Top(c).reg) >>), ""), LAMBDA z :
         [z EXCEPT !.out = << Top(c).reg, Top(c).reg >>])

\* case CEE_NEWOBJ, for a constructor without parameters of operand_type
CEE_NEWOBJ(c, operand_type) ==
    IF type_is_interface(operand_type) THEN CHECK_FAIL(c)
    ELSE CHECK_AND_RETHROW(stack_push(c, operand_type), LAMBDA c1 :
         CHECK_AND_RETHROW(NewobjThis(c1, operand_type), LAMBDA c2 :
         With(c2.out[1], LAMBDA number_reg :
         With(c2.out[2], LAMBDA this_reg :
         With(Emit(c2, Insn("CALL", << RefOp(".ctor"), RegOp(exception_reg),
                                       RegOp(this_reg) >>), "ctor"), LAMBDA c3 :
         With(NewLabel(c3), LAMBDA c4 :
         With(Emit(c4, Insn("BF", << LabelOp(c4.out), RegOp(exception_reg) >>), ""),
              LAMBDA c5 :
         CHECK_AND_RETHROW(jit_throw(c5, NULL), LAMBDA c6 :
         With(Emit(c6, Insn("LABEL", << LabelOp(c4.out) >>), ""), LAMBDA c7 :
         IF IsValueType(operand_type)
            /\ type_get_stack_type(operand_type) # STACK_TYPE_VALUE_TYPE
         THEN Emit(c7, Insn(jit_number_inscode(operand_type),
                            << RegOp(number_reg), MemOp(this_reg, "value") >>), "")
         ELSE c7)))))))))

\* case CEE_RET
CEE_RET(c) ==
    LET method_ret_type == type_get_underlying_type(c.method.ReturnType)
    IN  IF method_ret_type = NULL
        THEN IF Len(c.stack) # 0 THEN CHECK_FAIL(c)
             ELSE Emit(c, RetInsn(1, << IntOp(0) >>), "ret")
        ELSE CHECK_AND_RETHROW(stack_pop(c), LAMBDA c1 :
             LET ret_type == c1.out.type
                 ret_arg == c1.out.reg
                 st == type_get_stack_type(ret_type)
             IN  IF Len(c1.stack) # 0 THEN CHECK_FAIL(c1)
                 ELSE IF ~type_is_verifier_assignable_to(ret_type, c.method.ReturnType)
                 THEN CHECK_FAIL(c1)
                 ELSE IF st = STACK_TYPE_REF THEN CHECK_FAIL(c1)
                 ELSE IF st = STACK_TYPE_O /\ type_is_interface(method_ret_type)
                         /\ ~type_is_interface(ret_type)
                 THEN With(Emit(c1, Insn("CAST_OBJ_TO_INTERFACE", << RegOp(ret_arg) >>), ""),
                           LAMBDA c2 : Emit(c2, RetInsn(1, << IntOp(0) >>), "ret"))
                 ELSE IF st = STACK_TYPE_O /\ ~type_is_interface(method_ret_type)
                         /\ type_is_interface(ret_type)
                 THEN Emit(c1, RetInsn(2, << IntOp(0), MemOp(ret_arg, "this") >>), "ret")
                 ELSE IF st = STACK_TYPE_VALUE_TYPE
                         \/ (st = STACK_TYPE_O /\ type_is_interface(method_ret_type))
                 THEN With(Emit(c1, Insn("MEMCPY", << RegOp(ret_arg) >>), ""),
                           LAMBDA c2 : Emit(c2, RetInsn(1, << IntOp(0) >>), "ret"))
                 ELSE Emit(c1, RetInsn(2, << IntOp(0), RegOp(ret_arg) >>), "ret"))

\* case CEE_BOX
CEE_BOX(c, operand_type) ==
    CHECK_AND_RETHROW(stack_pop(c), LAMBDA c1 :
        IF ~type_is_verifier_assignable_to(c1.out.type, operand_type) THEN CHECK_FAIL(c1)
        ELSE
        CHECK_AND_RETHROW(stack_push(c1, tSystem_Object), LAMBDA c2 :
        With(Top(c2).reg, LAMBDA obj_reg :
        CHECK_AND_RETHROW(IF IsValueType(operand_type)
                          THEN jit_new(c2, obj_reg, operand_type, SizeOp(operand_type))
                          ELSE c2, LAMBDA c3 :
        LET st == type_get_stack_type(operand_type)
            val == c1.out
        IN  IF st = STACK_TYPE_O
            THEN Emit(c3, Insn("MOV", << RegOp(obj_reg), RegOp(val.reg) >>), "")
            ELSE IF st = STACK_TYPE_VALUE_TYPE
            THEN With(Emit(c3, Insn("ADD", << RegOp(obj_reg), RegOp(obj_reg),
                                              SizeOp(tSystem_Object) >>), ""), LAMBDA c4 :
                    Emit(c4, Insn("MEMCPY", << RegOp(obj_reg), RegOp(val.reg) >>), ""))
            ELSE IF st = STACK_TYPE_REF THEN CHECK_FAIL(c3)
            ELSE Emit(c3, Insn(jit_number_inscode(operand_type),
                               << MemOp(obj_reg, "value"), RegOp(val.reg) >>), "")))))

\* case CEE_NEWARR
CEE_NEWARR(c, operand_type) ==
    CHECK_AND_RETHROW(stack_pop(c), LAMBDA c1 :
        IF c1.out.type # tSystem_Int32 THEN CHECK_FAIL(c1)
        ELSE
        CHECK_AND_RETHROW(stack_push(c1, get_array_type(operand_type)), LAMBDA c2 :
        With(Top(c2).reg, LAMBDA array_reg :
        With(new_reg(c2, tSystem_Int64), LAMBDA c3 :
        With(Emit(c3, Insn("MUL", << RegOp(c3.out), RegOp(c1.out.reg),
                                     SizeOp(operand_type) >>), ""), LAMBDA c4 :
        With(Emit(c4, Insn("ADD", << RegOp(c3.out), RegOp(c3.out),
                                     SizeOp(tSystem_Array) >>), ""), LAMBDA c5 :
        CHECK_AND_RETHROW(jit_new(c5, array_reg, get_array_type(operand_type),
                                  RegOp(c3.out)), LAMBDA c6 :
        Emit(c6, Insn("MOV", << MemOp(array_reg, "Length"), RegOp(c1.out.reg) >>),
             ""))))))))

\* case CEE_BR, CEE_BR_S
CEE_BR(c, operand_i32) ==
    CHECK_AND_RETHROW(jit_branch_point(c, c.il_offset, operand_i32), LAMBDA c1 :
        Emit(c1, Insn("JMP", << LabelOp(c1.out) >>), "branch"))

\* case CEE_BRFALSE .. CEE_BRTRUE_S; code is MIR_BF or MIR_BT
CEE_BRCOND(c, code, operand_i32) ==
    CHECK_AND_RETHROW(stack_pop(c), LAMBDA c1 :
    CHECK_AND_RETHROW(jit_branch_point(c1, c.il_offset, operand_i32), LAMBDA c2 :
        LET st == type_get_stack_type(c1.out.type)
        IN  IF st \in { STACK_TYPE_VALUE_TYPE, STACK_TYPE_FLOAT } THEN CHECK_FAIL(c2)
            ELSE Emit(c2, Insn(IF st = STACK_TYPE_INT32 THEN Code32(code) ELSE code,
                               << LabelOp(c2.out), RegOp(c1.out.reg) >>), "branch")))

\* the label loop of case CEE_SWITCH from destination i on; labels collects
\* switch_ops[1..]
RECURSIVE SwitchLabelsFrom(_, _, _, _, _)
SwitchLabelsFrom(c, i, dests, next_ptr, labels) ==
    IF i > Len(dests) THEN [c EXCEPT !.out = labels]
    ELSE CHECK_AND_RETHROW(jit_branch_point(c, c.il_offset, next_ptr + dests[i]),
                           LAMBDA c1 :
         With(Append(labels, LabelOp(c1.out)), LAMBDA more :
         SwitchLabelsFrom(c1, i + 1, dests, next_ptr, more)))

\* case CEE_SWITCH
CEE_SWITCH(c, operand_switch_dests, next_ptr) ==
    CHECK_AND_RETHROW(stack_pop(c), LAMBDA c1 :
    CHECK_AND_RETHROW(SwitchLabelsFrom(c1, 1, operand_switch_dests, next_ptr, << >>),
                      LAMBDA c2 :
    With(NewLabel(c2), LAMBDA c3 :
    With(Emit(c3, Insn("BGE", << LabelOp(c3.out), RegOp(c1.out.reg),
                                 IntOp(Len(operand_switch_dests)) >>), ""), LAMBDA c4 :
    With(Emit(c4, Insn("SWITCH", << RegOp(c1.out.reg) >> \o c2.out), "branch"), LAMBDA c5 :
    Emit(c5, Insn("LABEL", << LabelOp(c3.out) >>), ""))))))

\* case CEE_THROW
CEE_THROW(c) ==
    CHECK_AND_RETHROW(stack_pop(c), LAMBDA c1 :
    With([c1 EXCEPT !.stack = << >>], LAMBDA c2 :
    CHECK_AND_RETHROW(jit_null_check(c2, c1.out.reg, c1.out.type), LAMBDA c3 :
    With(Emit(c3, Insn("MOV", << RegOp(exception_reg), RegOp(c1.out.reg) >>), "throw"),
         LAMBDA c4 :
    jit_throw(c4, c1.out.type)))))

\* the clause loop of case CEE_LEAVE from clause i on; out is
\* << last_clausi (0 for -1), in_a_protected_block >>
RECURSIVE LeaveFrom(_, _, _, _, _)
LeaveFrom(c, i, target_label, last_clausi, in_a_protected_block) ==
    IF i > Len(Clauses(c)) THEN [c EXCEPT !.out = << last_clausi, in_a_protected_block >>]
    ELSE LET clause == Clauses(c)[i]
             in_handler == InHandler(clause, c.il_offset)
         IN  With(IF in_handler
                  THEN Emit(c, Insn("MOV", << RegOp(exception_reg), IntOp(0) >>),
                            "leave.clear")
                  ELSE c, LAMBDA c1 :
             IF ~InTry(clause, c.il_offset)
             THEN LeaveFrom(c1, i + 1, target_label, last_clausi,
                            in_a_protected_block \/ in_handler)
             ELSE IF clause.Flags # COR_ILEXCEPTION_CLAUSE_FINALLY
             THEN LeaveFrom(c1, i + 1, target_label, last_clausi, TRUE)
             ELSE With([c1 EXCEPT !.clause_to_label[i].endfinally = target_label,
                                  !.clause_to_label[i].last_in_chain = TRUE], LAMBDA c2 :
                  With(IF last_clausi = 0
                       THEN Emit(c2, Insn("JMP", << LabelOp(c1.clause_to_label[i].value) >>),
                                 "leave.jmp")
                       ELSE [c2 EXCEPT
                               !.clause_to_label[last_clausi].endfinally =
                                   c1.clause_to_label[i].value,
                               !.clause_to_label[last_clausi].last_in_chain = FALSE],
                       LAMBDA c3 :
                  LeaveFrom(c3, i + 1, target_label, i, TRUE))))

\* case CEE_LEAVE, CEE_LEAVE_S
CEE_LEAVE(c, operand_i32) ==
    CHECK_AND_RETHROW(jit_resolve_branch(c, c.il_offset, operand_i32), LAMBDA c1 :
    With(LeaveFrom(c1, 1, c1.out, 0, FALSE), LAMBDA c2 :
        IF ~c2.out[2] THEN CHECK_FAIL(c2)
        ELSE IF c2.out[1] = 0
        THEN Emit(c2, Insn("JMP", << LabelOp(c1.out) >>), "leave.jmp")
        ELSE c2))

\* the first clause, from clause i on, whose handler holds the offset (0: none)
RECURSIVE HandlerClauseFrom(_, _, _)
HandlerClauseFrom(exceptions, i, offset) ==
    IF i > Len(exceptions) THEN 0
    ELSE IF InHandler(exceptions[i], offset) THEN i
    ELSE HandlerClauseFrom(exceptions, i + 1, offset)

\* an endfinally that returns the exception without testing it
EndfinallyNoTest(c, skip) ==
    Emit(c, Insn("JMP", << LabelOp(skip) >>), "endfinally.test")

\* the test a last-in-chain endfinally makes before returning the exception
EndfinallyTest(c, skip) ==
    Emit(c, Insn("BF", << LabelOp(skip), RegOp(exception_reg) >>), "endfinally.test")

\* what a last-in-chain endfinally emits in front of its jump
EndfinallyRethrow(c) ==
    With(NewLabel(c), LAMBDA c1 :
    With(EndfinallyTest(c1, c1.out), LAMBDA c2 :
    With(Emit(c2, RetInsn(Nres(c), << RegOp(exception_reg), IntOp(0) >>),
              "endfinally.ret"), LAMBDA c3 :
    Emit(c3, Insn("LABEL", << LabelOp(c1.out) >>), ""))))

\* case CEE_ENDFINALLY
CEE_ENDFINALLY(c) ==
    With(HandlerClauseFrom(Clauses(c), 1, c.il_offset), LAMBDA i :
        IF i = 0 THEN CHECK_FAIL(c)
        ELSE IF Clauses(c)[i].Flags # COR_ILEXCEPTION_CLAUSE_FINALLY THEN CHECK_FAIL(c)
        ELSE IF c.clause_to_label[i].endfinally = NoLabel THEN CHECK_FAIL(c)
        ELSE With(IF c.clause_to_label[i].last_in_chain THEN EndfinallyRethrow(c) ELSE c,
                  LAMBDA c4 :
             Emit(c4, Insn("JMP", << LabelOp(c.clause_to_label[i].endfinally) >>),
                  "endfinally.jmp")))

-----------------------------------------------------------------------------
(***************************************************************************)
(* CIL method bodies.  A body is written as a sequence of instructions     *)
(* whose branch operands name the index of the target instruction; the     *)
(* assembler lays them out at byte offsets and encodes every branch        *)
(* operand relative to the end of its instruction, as it is in the IL the  *)
(* translator decodes.                                                     *)
(***************************************************************************)

OPCODE_CONTROL_FLOW_INVALID == "INVALID"
OPCODE_CONTROL_FLOW_NEXT == "NEXT"
OPCODE_CONTROL_FLOW_BRANCH == "BRANCH"
OPCODE_CONTROL_FLOW_COND_BRANCH == "COND_BRANCH"
OPCODE_CONTROL_FLOW_CALL == "CALL"
OPCODE_CONTROL_FLOW_RETURN == "RETURN"
OPCODE_CONTROL_FLOW_THROW == "THROW"

Ins(op, arg, type) == [op |-> op, arg |-> arg, type |-> type, dests |-> << >>]

SwitchIns(dests) == [op |-> "switch", arg |-> Len(dests), type |-> NULL, dests |-> dests]

ShortBranchOps == { "br.s", "brtrue.s", "brfalse.s", "beq.s", "leave.s" }

TokenOps == { "newobj", "newarr", "box", "callvirt", "ldfld", "ldelem", "stelem", "ldelema" }

ArithOps == { "add", "div", "div.un", "rem", "rem.un" }

BitwiseOps == { "and", "or", "xor" }

\* the integer_only argument the opcode passes to jit_binary_numeric_operation
integer_only_never(op) == FALSE

integer_only(op) == op \in { "div.un", "rem.un" } \cup BitwiseOps

\* g_dotnet_opcodes[opcode].control_flow
control_flow(op) ==
    IF op \in { "br.s", "leave.s" } THEN OPCODE_CONTROL_FLOW_BRANCH
    ELSE IF op \in { "brtrue.s", "brfalse.s", "beq.s", "switch" }
    THEN OPCODE_CONTROL_FLOW_COND_BRANCH
    ELSE IF op \in { "newobj", "callvirt" } THEN OPCODE_CONTROL_FLOW_CALL
    ELSE IF op \in { "ret", "endfinally" } THEN OPCODE_CONTROL_FLOW_RETURN
    ELSE IF op = "throw" THEN OPCODE_CONTROL_FLOW_THROW
    ELSE OPCODE_CONTROL_FLOW_NEXT

\* the bytes an instruction takes: the opcode byte and its inline operand
InsSize(ins) ==
    IF ins.op \in ShortBranchOps THEN 2
    ELSE IF ins.op \in TokenOps THEN 5
    ELSE IF ins.op = "ldloca" THEN 2
    ELSE IF ins.op = "switch" THEN 5 + 4 * Len(ins.dests)
    ELSE 1

\* the byte offset of instruction i of prog (i = Len(prog) + 1: the length)
RECURSIVE Off(_, _)
Off(prog, i) == IF i <= 1 THEN 0 ELSE Off(prog, i - 1) + InsSize(prog[i - 1])

IsBranchOp(op) == op \in ShortBranchOps

\* the byte offsets of the instructions of prog and, last, its length
Offsets(prog) == [i \in 1..(Len(prog) + 1) |-> Off(prog, i)]

\* body->Il: at the offset of every instruction, the instruction with its
\* operand as encoded (branch operands relative to the next instruction)
Assemble(prog) ==
    With(Offsets(prog), LAMBDA offs :
        [ o \in { offs[i] : i \in 1..Len(prog) } |->
            With(CHOOSE j \in 1..Len(prog) : offs[j] = o, LAMBDA i :
                IF IsBranchOp(prog[i].op)
                THEN [prog[i] EXCEPT !.arg = offs[prog[i].arg] - offs[i + 1]]
                ELSE IF prog[i].op = "switch"
                THEN [prog[i] EXCEPT !.dests =
                         [k \in 1..Len(prog[i].dests) |->
                             offs[prog[i].dests[k]] - offs[i + 1]]]
                ELSE prog[i]) ])

\* an exception-handling clause over instruction indexes [try_from, try_to) and
\* [handler_from, handler_to)
Clause(prog, flags, try_from, try_to, handler_from, handler_to, catch_type) ==
    [ Flags |-> flags,
      TryOffset |-> Off(prog, try_from),
      TryLength |-> Off(prog, try_to) - Off(prog, try_from),
      HandlerOffset |-> Off(prog, handler_from),
      HandlerLength |-> Off(prog, handler_to) - Off(prog, handler_from),
      CatchType |-> catch_type ]

\* a System_Reflection_MethodInfo with its MethodBody
Method(name, prog, params, ret, max_stack, clauses) ==
    With(prog, LAMBDA p :
        [ Name |-> name,
          Il |-> Assemble(p),
          IlLength |-> Off(p, Len(p) + 1),
          Parameters |-> params,
          ReturnType |-> ret,
          MaxStackSize |-> max_stack,
          InitLocals |-> TRUE,
          LocalVariables |-> << >>,
          ExceptionHandlingClauses |-> clauses ])

-----------------------------------------------------------------------------
(***************************************************************************)
(* The methods handed to the translator.                                   *)
(***************************************************************************)

Nop == Ins("nop", 0, NULL)

\* S1: 2 + 3
AddMethod ==
    Method("Add", << Ins("ldc.i4", 2, NULL), Ins("ldc.i4", 3, NULL), Ins("add", 0, NULL),
                     Ins("ret", 0, NULL) >>,
           << >>, tSystem_Int32, 2, << >>)

\* arg0 <op> arg1
DivMethod(op) ==
    Method(op, << Ins("ldarg", 0, NULL), Ins("ldarg", 1, NULL), Ins(op, 0, NULL),
                  Ins("ret", 0, NULL) >>,
           << tSystem_Int32, tSystem_Int32 >>, tSystem_Int32, 2, << >>)

JoinTypes == { tSystem_Object, tSystem_String, tFoo, tSystem_Int32 }

\* arg0 ? arg1 : arg2 -- the join at ret is reached by a branch carrying A and
\* by fall-through carrying B
JoinMethod(A, B) ==
    Method("Join", << Ins("ldarg", 0, NULL), Ins("brtrue.s", 5, NULL), Ins("ldarg", 1, NULL),
                      Ins("br.s", 6, NULL), Ins("ldarg", 2, NULL), Ins("ret", 0, NULL) >>,
           << tSystem_Int32, A, B >>, B, 2, << >>)

LoopShapes == { "same", "short", "long" }

\* a loop whose head (instruction 2) is first reached with A on the stack and
\* then by a backward branch carrying B (nothing for "short", B B for "long")
LoopMethod(A, B, shape) ==
    Method("Loop",
           << Ins("ldarg", 1, NULL), Nop, Ins("pop", 0, NULL),
              IF shape = "short" THEN Nop ELSE Ins("ldarg", 2, NULL),
              IF shape = "long" THEN Ins("ldarg", 2, NULL) ELSE Nop,
              Ins("ldarg", 0, NULL), Ins("brtrue.s", 2, NULL),
              Ins("pop", 0, NULL), Ins("ret", 0, NULL) >>,
           << tSystem_Int32, A, B >>, NULL, 3, << >>)

BranchKinds == { "br.s", "brtrue.s", "beq.s", "switch" }

\* three instructions: a branch of the given kind to instruction target with
\* the operands it pops pushed in front, or three nops for kind "none"
Slot(kind, target) ==
    CASE kind = "br.s" -> << Nop, Nop, Ins("br.s", target, NULL) >>
      [] kind = "brtrue.s" -> << Nop, Ins("ldarg", 0, NULL), Ins("brtrue.s", target, NULL) >>
      [] kind = "beq.s" ->
            << Ins("ldarg", 0, NULL), Ins("ldarg", 0, NULL), Ins("beq.s", target, NULL) >>
      [] kind = "switch" -> << Nop, Ins("ldarg", 0, NULL), SwitchIns(<< target >>) >>
      [] OTHER -> << Nop, Nop, Nop >>

SlotAt(at, source, kind, target) == Slot(IF at = source THEN kind ELSE "none", target)

\* the slots (by first instruction) of NestedTryMethod
NestedTrySlots == { 1, 4, 7, 12, 16, 20, 24 }

NestedTryProg(source, kind, target) ==
    SlotAt(1, source, kind, target)
    \o SlotAt(4, source, kind, target)                 \* outer try
    \o SlotAt(7, source, kind, target)                 \* inner try
    \o << Ins("leave.s", 16, NULL), Ins("pop", 0, NULL) >>
    \o SlotAt(12, source, kind, target)                \* catch handler
    \o << Ins("leave.s", 16, NULL) >>
    \o SlotAt(16, source, kind, target)                \* outer try
    \o << Ins("leave.s", 24, NULL) >>
    \o SlotAt(20, source, kind, target)                \* finally handler
    \o << Ins("endfinally", 0, NULL) >>
    \o SlotAt(24, source, kind, target)
    \o << Ins("ret", 0, NULL) >>

\* the clause table in the order given, or the two clauses swapped
Ordered(first, second, swapped) ==
    IF swapped THEN << second, first >> ELSE << first, second >>

\* try { try { } catch Exception { } } finally { } with one branch in a slot
NestedTryMethod(source, kind, target, swapped) ==
    With(NestedTryProg(source, kind, target), LAMBDA prog :
        Method("NestedTry", prog, << tSystem_Int32 >>, NULL, 2,
               Ordered(Clause(prog, COR_ILEXCEPTION_CLAUSE_EXCEPTION, 7, 11, 11, 16,
                              tSystem_Exception),
                       Clause(prog, COR_ILEXCEPTION_CLAUSE_FINALLY, 4, 20, 20, 24, NULL),
                       swapped)))

NestedTryMethods ==
    { NestedTryMethod(s, k, t, w) :
        s \in NestedTrySlots, k \in BranchKinds, t \in NestedTrySlots, w \in BOOLEAN }

\* the slots (by first instruction) of HandlerTryMethod
HandlerTrySlots == { 1, 4, 9, 12, 16, 21 }

HandlerTryProg(source, kind, target) ==
    SlotAt(1, source, kind, target)
    \o SlotAt(4, source, kind, target)                 \* try
    \o << Ins("leave.s", 21, NULL), Ins("pop", 0, NULL) >>
    \o SlotAt(9, source, kind, target)                 \* catch handler
    \o SlotAt(12, source, kind, target)                \* try inside the handler
    \o << Ins("leave.s", 20, NULL) >>
    \o SlotAt(16, source, kind, target)                \* finally handler
    \o << Ins("endfinally", 0, NULL), Ins("leave.s", 21, NULL) >>
    \o SlotAt(21, source, kind, target)
    \o << Ins("ret", 0, NULL) >>

\* try { } catch Exception { try { } finally { } } with one branch in a slot
HandlerTryMethod(source, kind, target, swapped) ==
    With(HandlerTryProg(source, kind, target), LAMBDA prog :
        Method("HandlerTry", prog, << tSystem_Int32 >>, NULL, 2,
               Ordered(Clause(prog, COR_ILEXCEPTION_CLAUSE_FINALLY, 12, 16, 16, 20, NULL),
                       Clause(prog, COR_ILEXCEPTION_CLAUSE_EXCEPTION, 4, 8, 8, 21,
                              tSystem_Exception),
                       swapped)))

HandlerTryMethods ==
    { HandlerTryMethod(s, k, t, w) :
        s \in HandlerTrySlots, k \in BranchKinds, t \in HandlerTrySlots, w \in BOOLEAN }

ThrowTypes == { tSystem_InvalidCastException, tSystem_Exception }

CatchTypes == { tSystem_InvalidCastException, tSystem_Exception, tSystem_Object }

\* S6: try { throw new T() } catch (C) { return 7 }
CatchMethod(T, C) ==
    With(<< Ins("newobj", 0, T), Ins("throw", 0, NULL),
            Ins("pop", 0, NULL), Ins("ldc.i4", 7, NULL), Ins("ret", 0, NULL) >>,
         LAMBDA prog :
        Method("Catch", prog, << >>, tSystem_Int32, 2,
               << Clause(prog, COR_ILEXCEPTION_CLAUSE_EXCEPTION, 1, 3, 3, 6, C) >>))

\* try { try { if (arg0) throw new T() } finally { } } catch (C) { return 7 }
\* return 1
FinallyInCatchMethod(T, C, swapped) ==
    With(<< Ins("ldarg", 0, NULL), Ins("brtrue.s", 4, NULL), Ins("leave.s", 7, NULL),
            Ins("newobj", 0, T), Ins("throw", 0, NULL),
            Ins("endfinally", 0, NULL),
            Ins("leave.s", 11, NULL),
            Ins("pop", 0, NULL), Ins("ldc.i4", 7, NULL), Ins("ret", 0, NULL),
            Ins("ldc.i4", 1, NULL), Ins("ret", 0, NULL) >>,
         LAMBDA prog :
        Method("FinallyInCatch", prog, << tSystem_Int32 >>, tSystem_Int32, 2,
               Ordered(Clause(prog, COR_ILEXCEPTION_CLAUSE_FINALLY, 1, 6, 6, 7, NULL),
                       Clause(prog, COR_ILEXCEPTION_CLAUSE_EXCEPTION, 1, 8, 8, 11, C),
                       swapped)))

\* try { try { throw new T() } catch (C) { } } finally { } return 1
CatchInFinallyMethod(T, C, swapped) ==
    With(<< Ins("newobj", 0, T), Ins("throw", 0, NULL),
            Ins("pop", 0, NULL), Ins("leave.s", 6, NULL),
            Ins("endfinally", 0, NULL),
            Ins("ldc.i4", 1, NULL), Ins("ret", 0, NULL) >>,
         LAMBDA prog :
        Method("CatchInFinally", prog, << >>, tSystem_Int32, 2,
               Ordered(Clause(prog, COR_ILEXCEPTION_CLAUSE_EXCEPTION, 1, 3, 3, 5, C),
                       Clause(prog, COR_ILEXCEPTION_CLAUSE_FINALLY, 1, 5, 5, 6, NULL),
                       swapped)))

\* try { throw new T() } catch (C) { try { } finally { } } return 1
FinallyInHandlerMethod(T, C, swapped) ==
    With(<< Ins("newobj", 0, T), Ins("throw", 0, NULL),
            Ins("pop", 0, NULL), Ins("leave.s", 6, NULL),
            Ins("endfinally", 0, NULL),
            Ins("ldc.i4", 1, NULL), Ins("ret", 0, NULL) >>,
         LAMBDA prog :
        Method("FinallyInHandler", prog, << >>, tSystem_Int32, 2,
               Ordered(Clause(prog, COR_ILEXCEPTION_CLAUSE_FINALLY, 4, 5, 5, 6, NULL),
                       Clause(prog, COR_ILEXCEPTION_CLAUSE_EXCEPTION, 1, 3, 3, 6, C),
                       swapped)))

LeaveTargets == { 3, 6 }

\* try { try { leave target } finally { } nop; leave 6 } finally { } ret,
\* where instruction 3 (the nop) is inside the outer try and 6 (the ret) outside
NestedFinallyMethod(target, swapped) ==
    With(<< Ins("leave.s", target, NULL), Ins("endfinally", 0, NULL),
            Nop, Ins("leave.s", 6, NULL), Ins("endfinally", 0, NULL),
            Ins("ret", 0, NULL) >>,
         LAMBDA prog :
        Method("NestedFinally", prog, << >>, NULL, 2,
               Ordered(Clause(prog, COR_ILEXCEPTION_CLAUSE_FINALLY, 1, 2, 2, 3, NULL),
                       Clause(prog, COR_ILEXCEPTION_CLAUSE_FINALLY, 1, 5, 5, 6, NULL),
                       swapped)))

\* try { if (arg0) throw new T() } catch (C) { } return 1
CatchLeaveMethod(T, C) ==
    With(<< Ins("ldarg", 0, NULL), Ins("brtrue.s", 4, NULL), Ins("leave.s", 8, NULL),
            Ins("newobj", 0, T), Ins("throw", 0, NULL),
            Ins("pop", 0, NULL), Ins("leave.s", 8, NULL),
            Ins("ldc.i4", 1, NULL), Ins("ret", 0, NULL) >>,
         LAMBDA prog :
        Method("CatchLeave", prog, << tSystem_Int32 >>, tSystem_Int32, 2,
               << Clause(prog, COR_ILEXCEPTION_CLAUSE_EXCEPTION, 1, 6, 6, 8, C) >>))

AllocKinds == { "newobj", "newarr", "box", "box.ref", "newobj.oom", "throw.null",
                "throw.arg" }

\* one allocation or one throw of a runtime-made exception
AllocMethod(kind) ==
    CASE kind = "newobj" ->
            Method(kind, << Ins("newobj", 0, tFoo), Ins("pop", 0, NULL),
                            Ins("ret", 0, NULL) >>, << >>, NULL, 2, << >>)
      [] kind = "newarr" ->
            Method(kind, << Ins("ldc.i4", 2, NULL), Ins("newarr", 0, tSystem_Int32),
                            Ins("pop", 0, NULL), Ins("ret", 0, NULL) >>, << >>, NULL, 2, << >>)
      [] kind = "box" ->
            Method(kind, << Ins("ldc.i4", 1, NULL), Ins("box", 0, tSystem_Int32),
                            Ins("pop", 0, NULL), Ins("ret", 0, NULL) >>, << >>, NULL, 2, << >>)
      [] kind = "box.ref" ->
            Method(kind, << Ins("ldarg", 0, NULL), Ins("box", 0, tSystem_String),
                            Ins("pop", 0, NULL), Ins("ret", 0, NULL) >>,
                   << tSystem_String >>, NULL, 2, << >>)
      [] kind = "newobj.oom" ->
            Method(kind, << Ins("newobj", 0, tSystem_OutOfMemoryException),
                            Ins("throw", 0, NULL) >>, << >>, NULL, 2, << >>)
      [] kind = "throw.null" ->
            Method(kind, << Ins("ldnull", 0, NULL), Ins("throw", 0, NULL) >>,
                   << >>, NULL, 2, << >>)
      [] OTHER ->
            Method(kind, << Ins("ldarg", 0, NULL), Ins("throw", 0, NULL) >>,
                   << tSystem_Exception >>, NULL, 2, << >>)

\* every method the translator is run on
Methods ==
    { AddMethod }
    \cup { DivMethod(op) : op \in ArithOps }
    \cup { JoinMethod(A, B) : A \in JoinTypes, B \in JoinTypes }
    \cup { LoopMethod(A, B, shape) : A \in JoinTypes, B \in JoinTypes, shape \in LoopShapes }
    \cup NestedTryMethods
    \cup HandlerTryMethods
    \cup { CatchMethod(T, C) : T \in ThrowTypes, C \in CatchTypes }
    \cup { FinallyInCatchMethod(T, C, w) : T \in ThrowTypes, C \in CatchTypes, w \in BOOLEAN }
    \cup { CatchInFinallyMethod(T, C, w) : T \in ThrowTypes, C \in CatchTypes, w \in BOOLEAN }
    \cup { FinallyInHandlerMethod(T, C, w) :
             T \in ThrowTypes, C \in CatchTypes, w \in BOOLEAN }
    \cup { NestedFinallyMethod(t, w) : t \in LeaveTargets, w \in BOOLEAN }
    \cup { CatchLeaveMethod(T, C) : T \in ThrowTypes, C \in CatchTypes }
    \cup { AllocMethod(kind) : kind \in AllocKinds }

-----------------------------------------------------------------------------
(***************************************************************************)
(* jit_method as a state machine: the prologue, then for every IL          *)
(* instruction the loop head (snapshot and control-flow checks) and the    *)
(* opcode case.                                                            *)
(***************************************************************************)

NoMethod == Method("none", << Ins("ret", 0, NULL) >>, << >>, NULL, 0, << >>)

NoValue == [k |-> "none", v |-> 0, n |-> ""]

NoResult == [exception |-> NoValue, value |-> NoValue]

\* the jit_context_t of the method being translated
Ctx ==
    [ method |-> method, il_offset |-> il_offset, stack |-> stack,
      snaps |-> pc_to_stack_snapshot, clause_to_label |-> clause_to_label,
      name_gen |-> name_gen, label_gen |-> label_gen, mir |-> mir, err |-> err,
      out |-> 0 ]

\* the context's fields written back
SetCtx(c) ==
    /\ stack' = c.stack
    /\ pc_to_stack_snapshot' = c.snaps
    /\ clause_to_label' = c.clause_to_label
    /\ name_gen' = c.name_gen
    /\ label_gen' = c.label_gen
    /\ mir' = c.mir
    /\ err' = c.err

RunIdle == UNCHANGED << mpc, regs, heap, result, trail, steps, lengths >>

TypesIdle == UNCHANGED << ty, rel, threads, shared, assembly >>

\* the clause loop of the prologue from clause i on
RECURSIVE PrologueFrom(_, _)
PrologueFrom(c, i) ==
    IF i > Len(Clauses(c)) THEN c
    ELSE LET clause == Clauses(c)[i]
             catch == clause.Flags = COR_ILEXCEPTION_CLAUSE_EXCEPTION
         IN  With(NewLabel(c), LAMBDA c1 :
             With(IF catch THEN new_reg(c1, clause.CatchType) ELSE c1, LAMBDA c2 :
             With(PutSnapshot(c2, clause.HandlerOffset, c1.out,
                              IF catch
                              THEN << [type |-> clause.CatchType, reg |-> c2.out] >>
                              ELSE << >>), LAMBDA c3 :
             With([c3 EXCEPT !.clause_to_label =
                      Append(@, [value |-> c1.out, endfinally |-> NoLabel,
                                 last_in_chain |-> FALSE])], LAMBDA c4 :
             PrologueFrom(c4, i + 1)))))

\* jit_assembly before the first jit_method: the MIR context and the module are
\* open, nothing of the assembly is loaded and no method has a MIR function
AssemblyInit ==
    [ context |-> "open",               \* ctx.context: open, or freed by MIR_finish
      module |-> "open",                \* the module: open or finished
      MirFunc |-> NULL,                 \* method->MirFunc
      loaded |-> FALSE,                 \* the module is in the shared context, loaded
      linked |-> FALSE,                 \* MIR_link ran over the shared context
      virtual_functions |-> << NULL >>, \* the declaring type's VTable
      ret |-> "running" ]               \* what jit_assembly returned

JitInit ==
    /\ pc = "prologue"
    /\ method \in Methods
    /\ il_ptr = 0
    /\ il_offset = 0
    /\ last_cf = OPCODE_CONTROL_FLOW_INVALID
    /\ stack = << >>
    /\ pc_to_stack_snapshot = << >>
    /\ clause_to_label = << >>
    /\ name_gen = 0
    /\ label_gen = 0
    /\ mir = << >>
    /\ err = NO_ERROR
    /\ mpc = 0
    /\ regs = << >>
    /\ heap = << >>
    /\ result = NoResult
    /\ trail = << >>
    /\ steps = 0
    /\ lengths = << >>
    /\ ty = << NULL, NULL, NULL >>
    /\ rel = << >>
    /\ threads = << >>
    /\ shared = << >>
    /\ assembly = AssemblyInit

\* the locals loop of the prologue from local i on
RECURSIVE LocalsFrom(_, _)
LocalsFrom(c, i) ==
    IF i > Len(c.method.LocalVariables) THEN c
    ELSE IF ~c.method.InitLocals THEN CHECK_FAIL(c)
    ELSE With(c.method.LocalVariables[i], LAMBDA LocalType :
         With(new_reg(c, LocalType), LAMBDA c1 :
         With(IF type_is_object_ref(LocalType)
                 \/ LocalType \in { tSystem_Int32, tSystem_Int64, tSystem_IntPtr }
              THEN Emit(c1, Insn("MOV", << RegOp(c1.out), IntOp(0) >>), "local")
              ELSE IF LocalType = tSystem_Single
              THEN Emit(c1, Insn("FMOV", << RegOp(c1.out), IntOp(0) >>), "local")
              ELSE IF LocalType = tSystem_Double
              THEN Emit(c1, Insn("DMOV", << RegOp(c1.out), IntOp(0) >>), "local")
              ELSE Emit(c1, Insn("ZEROFILL", << RegOp(c1.out) >>), "local"), LAMBDA c2 :
         LocalsFrom(c2, i + 1))))

\* jit_method up to the translation loop
JitPrologue ==
    /\ pc = "prologue"
    /\ \E c \in { CHECK_AND_RETHROW(LocalsFrom(Ctx, 1), LAMBDA c1 : PrologueFrom(c1, 1)) } :
          /\ SetCtx(c)
          /\ pc' = IF Ok(c) THEN "head" ELSE "failed"
    /\ assembly' = [assembly EXCEPT !.MirFunc = "func"]
    /\ UNCHANGED << method, il_ptr, il_offset, last_cf >>
    /\ RunIdle /\ UNCHANGED << ty, rel, threads, shared >>

EndsFlow(cf) ==
    cf \in { OPCODE_CONTROL_FLOW_BRANCH, OPCODE_CONTROL_FLOW_THROW,
             OPCODE_CONTROL_FLOW_RETURN }

\* is the offset the start of a handler or the end of a handler or of a try
IsBoundary(c, offset) ==
    \E i \in 1..Len(Clauses(c)) :
        LET clause == Clauses(c)[i]
        IN  \/ clause.HandlerOffset = offset
            \/ clause.HandlerOffset + clause.HandlerLength = offset
            \/ clause.TryOffset + clause.TryLength = offset

\* the loop head: what the translator does on reaching offset before it decodes
LoopHead(c, offset) ==
    IF offset \in DOMAIN c.snaps
    THEN With(IF last_cf \in { OPCODE_CONTROL_FLOW_BRANCH, OPCODE_CONTROL_FLOW_THROW }
              THEN [c EXCEPT !.stack = c.snaps[offset].stack]
              ELSE c, LAMBDA c1 :
         CHECK_AND_RETHROW(stack_merge(c1, offset, TRUE), LAMBDA c2 :
         With(Emit([c2 EXCEPT !.il_offset = offset],
                   Insn("LABEL", << LabelOp(c2.snaps[offset].label) >>), "il"), LAMBDA c3 :
         Check(c3, IsBoundary(c, offset) => EndsFlow(last_cf)))))
    ELSE With(IF last_cf \in { OPCODE_CONTROL_FLOW_BRANCH, OPCODE_CONTROL_FLOW_THROW }
              THEN [c EXCEPT !.stack = << >>]
              ELSE c, LAMBDA c1 :
         With(NewLabel(c1), LAMBDA n :
         With(PutSnapshot(n, offset, n.out, c1.stack), LAMBDA c2 :
         With(Emit([c2 EXCEPT !.il_offset = offset],
                   Insn("LABEL", << LabelOp(n.out) >>), "il"), LAMBDA c3 :
         Check(c3, IsBoundary(c, offset) => EndsFlow(last_cf))))))

JitHead ==
    /\ pc = "head"
    /\ il_ptr < method.IlLength
    /\ \E c \in { LoopHead(Ctx, il_ptr) } :
          /\ SetCtx(c)
          /\ pc' = IF Ok(c) THEN "opcode" ELSE "failed"
    /\ il_offset' = il_ptr
    /\ UNCHANGED << method, il_ptr, last_cf >>
    /\ RunIdle /\ TypesIdle

\* the check after the loop
JitEnd ==
    /\ pc = "head"
    /\ il_ptr >= method.IlLength
    /\ err' = IF EndsFlow(last_cf) THEN NO_ERROR ELSE ERROR_CHECK_FAILED
    /\ pc' = IF EndsFlow(last_cf) THEN "translated" ELSE "failed"
    /\ UNCHANGED << method, il_ptr, il_offset, last_cf, stack, pc_to_stack_snapshot,
                    clause_to_label, name_gen, label_gen, mir >>
    /\ RunIdle /\ TypesIdle

\* the instruction at il_offset and the il_ptr behind its operand
CurIns == method.Il[il_offset]

NextPtr == il_offset + InsSize(CurIns)

\* decode the instruction at il_offset and run its case, which leaves c
Decode(ops, c) ==
    /\ pc = "opcode"
    /\ CurIns.op \in ops
    /\ il_ptr' = NextPtr
    /\ last_cf' = control_flow(CurIns.op)
    /\ \E d \in { c } :
          /\ SetCtx(d)
          /\ pc' = IF Ok(d) THEN "head" ELSE "failed"
    /\ UNCHANGED << method, il_offset >>
    /\ RunIdle /\ TypesIdle

MirCode(op) ==
    CASE op = "add" -> "ADD"
      [] op = "div" -> "DIV"
      [] op = "div.un" -> "UDIV"
      [] op = "rem" -> "MOD"
      [] op = "rem.un" -> "UMOD"
      [] op = "and" -> "AND"
      [] op = "or" -> "OR"
      [] op = "xor" -> "XOR"
      [] op = "beq.s" -> "BEQ"
      [] op = "brtrue.s" -> "BT"
      [] op = "brfalse.s" -> "BF"

JitNop == Decode({ "nop" }, Ctx)

JitLdarg == Decode({ "ldarg" }, CEE_LDARG(Ctx, CurIns.arg))

JitLdcI4 == Decode({ "ldc.i4" }, CEE_LDC_I4(Ctx, CurIns.arg))

JitLdnull == Decode({ "ldnull" }, CEE_LDNULL(Ctx))

JitPop == Decode({ "pop" }, CEE_POP(Ctx))

JitArith ==
    Decode(ArithOps \cup BitwiseOps,
           jit_binary_numeric_operation(Ctx, MirCode(CurIns.op), integer_only(CurIns.op)))

JitNewobj == Decode({ "newobj" }, CEE_NEWOBJ(Ctx, CurIns.type))

JitBox == Decode({ "box" }, CEE_BOX(Ctx, CurIns.type))

JitNewarr == Decode({ "newarr" }, CEE_NEWARR(Ctx, CurIns.type))

JitRet == Decode({ "ret" }, CEE_RET(Ctx))

JitBr == Decode({ "br.s" }, CEE_BR(Ctx, CurIns.arg + NextPtr))

JitBrCond ==
    Decode({ "brtrue.s", "brfalse.s" },
           CEE_BRCOND(Ctx, MirCode(CurIns.op), CurIns.arg + NextPtr))

JitCompareBranch ==
    Decode({ "beq.s" }, jit_compare_branch(Ctx, MirCode(CurIns.op), CurIns.arg + NextPtr))

JitSwitch == Decode({ "switch" }, CEE_SWITCH(Ctx, CurIns.dests, NextPtr))

JitThrow == Decode({ "throw" }, CEE_THROW(Ctx))

JitLeave == Decode({ "leave.s" }, CEE_LEAVE(Ctx, CurIns.arg + NextPtr))

JitEndfinally == Decode({ "endfinally" }, CEE_ENDFINALLY(Ctx))

-----------------------------------------------------------------------------
(***************************************************************************)
(* Running the emitted MIR function.  A value is an integer, a reference   *)
(* to an allocated object, a type handle, or what an unwritten register    *)
(* holds.  Null is the integer 0.                                          *)
(***************************************************************************)

\* the longest run followed, in MIR instructions
MaxSteps == 40

\* sizeof(void*)
PointerSize == 8

\* offsetof(object_vtable_t, virtual_functions): the vtable starts with its type
VtableHeader == 8

\* a method as call, callvirt and the vtables see it
MethodInfo(name, declaring, vtable_offset, virtual) ==
    [ Name |-> name, DeclaringType |-> declaring, VTableOffset |-> vtable_offset,
      IsVirtual |-> virtual ]

Object_ToString == MethodInfo("Object::ToString", tSystem_Object, 0, TRUE)
Object_GetHashCode == MethodInfo("Object::GetHashCode", tSystem_Object, 1, TRUE)
IFoo_M0 == MethodInfo("IFoo::M0", tIFoo, 0, TRUE)
IFoo_M1 == MethodInfo("IFoo::M1", tIFoo, 1, TRUE)
Foo_V == MethodInfo("Foo::V", tFoo, 2, TRUE)
Foo_M0 == MethodInfo("Foo::M0", tFoo, 3, TRUE)
Foo_M1 == MethodInfo("Foo::M1", tFoo, 4, TRUE)
Foo_N == MethodInfo("Foo::N", tFoo, 0, FALSE)
Bar_V == MethodInfo("Bar::V", tBar, 2, TRUE)

MethodInfos ==
    { Object_ToString, Object_GetHashCode, IFoo_M0, IFoo_M1, Foo_V, Foo_M0, Foo_M1,
      Foo_N, Bar_V }

MethodNamed(name) == CHOOSE m \in MethodInfos : m.Name = name

\* type->VirtualMethods: slot i holds the method whose VTableOffset is i; the
\* methods implementing an interface sit in consecutive slots
VirtualMethods(type) ==
    IF type = tFoo
    THEN << Object_ToString, Object_GetHashCode, Foo_V, Foo_M0, Foo_M1 >>
    ELSE IF type = tBar
    THEN << Object_ToString, Object_GetHashCode, Bar_V, Foo_M0, Foo_M1 >>
    ELSE IF type = tIFoo THEN << IFoo_M0, IFoo_M1 >>
    ELSE << Object_ToString, Object_GetHashCode >>

\* type_get_interface_impl(targetType, interfaceType)->VTableOffset
InterfaceVTableOffset(targetType, interfaceType) == 3

\* type_get_interface_impl(targetType, interfaceType) != NULL
type_has_interface_impl(targetType, interfaceType) == interfaceType \in InterfaceImpls(targetType)

\* type_get_interface_method_impl
type_get_interface_method_impl(targetType, targetMethod) ==
    VirtualMethods(targetType)[InterfaceVTableOffset(targetType, targetMethod.DeclaringType)
                                  + targetMethod.VTableOffset + 1]

\* an interface value: its object (0: none) and the interface it was cast to
FatV(o, interface) == [k |-> "fat", v |-> o, n |-> interface]

\* a pointer off bytes into the vtable of the type
VTableV(type, off) == [k |-> "vtable", v |-> off, n |-> type]

\* what the 8 bytes at off of the vtable of the type hold: a function pointer
\* of the virtual_functions array, named with the offset it was read from
SlotV(type, off) ==
    IF off >= VtableHeader /\ (off - VtableHeader) % PointerSize = 0
       /\ (off - VtableHeader) \div PointerSize < Len(VirtualMethods(type))
    THEN [k |-> "func", v |-> off,
          n |-> VirtualMethods(type)[(off - VtableHeader) \div PointerSize + 1].Name]
    ELSE [k |-> "garbage", v |-> off, n |-> ""]

\* the pointer-sized load from d bytes behind what base points to: the vtable
\* pointer of an object, the two words dynamic_cast_obj_to_interface stores
\* into an interface value, a slot of a vtable
Load(objects, base, d) ==
    IF base.k = "obj" /\ d = 0 THEN VTableV(objects[base.v], 0)
    ELSE IF base.k = "fat" /\ d = 0
    THEN IF base.v = 0 THEN [k |-> "int", v |-> 0, n |-> ""]
         ELSE VTableV(objects[base.v],
                      VtableHeader
                        + InterfaceVTableOffset(objects[base.v], base.n) * PointerSize)
    ELSE IF base.k = "fat" /\ d = PointerSize
    THEN IF base.v = 0 THEN [k |-> "int", v |-> 0, n |-> ""]
         ELSE [k |-> "obj", v |-> base.v, n |-> ""]
    ELSE IF base.k = "vtable" THEN SlotV(base.n, base.v + d)
    ELSE [k |-> "garbage", v |-> 0, n |-> ""]

\* the objects gc_new can hand out before the heap is exhausted
MaxAllocs == 3

IntV(n) == IntOp(n)

ObjV(i) == [k |-> "obj", v |-> i, n |-> ""]

\* a register no instruction has written yet
Uninit == [k |-> "uninit", v |-> 0, n |-> ""]

\* a non-zero bit pattern that is no object
Garbage == [k |-> "garbage", v |-> 0, n |-> ""]

IntArgs == { 0, 1, 2 }

\* the exceptions the constructors called by the method may raise
CalleeExceptionTypes == { tSystem_Exception, tSystem_InvalidCastException }

JitIdle ==
    UNCHANGED << method, il_ptr, il_offset, last_cf, stack, pc_to_stack_snapshot,
                 clause_to_label, name_gen, label_gen, mir, err >>

\* the values a caller may pass for parameter i
ArgChoices(i) ==
    IF type_get_stack_type(method.Parameters[i]) = STACK_TYPE_O
    THEN { IntV(0), ObjV(i) }
    ELSE { IntV(n) : n \in IntArgs }

\* the call of the MIR function: the arguments are in their registers, every
\* other register, the exception register among them, holds what was there
RunBegin ==
    /\ pc = "translated"
    /\ assembly.linked
    /\ \E args \in [1..Len(method.Parameters) -> { IntV(0) } \cup { IntV(n) : n \in IntArgs }
                       \cup { ObjV(i) : i \in 1..Len(method.Parameters) }],
          exc0 \in { IntV(0), Garbage } :
          /\ \A i \in 1..Len(method.Parameters) : args[i] \in ArgChoices(i)
          /\ regs' = [r \in (0 - Len(method.Parameters))..name_gen |->
                        IF r = exception_reg THEN exc0
                        ELSE IF r < 0 THEN args[0 - r]
                        ELSE Uninit]
    /\ heap' = [i \in 1..Len(method.Parameters) |-> method.Parameters[i]]
    /\ mpc' = 1
    /\ pc' = "run"
    /\ UNCHANGED << result, trail, steps, lengths >>
    /\ JitIdle /\ TypesIdle

Running == pc = "run" /\ steps < MaxSteps /\ mpc \in 1..Len(mir)

CurMir == mir[mpc]

\* the value of an operand; of memory the vtables, the two words of an
\* interface value and the Length of an array are modelled
Val(op) ==
    IF op.k = "reg" THEN regs[op.v]
    ELSE IF op.k = "int" THEN IntV(op.v)
    ELSE IF op.k = "size" THEN IntV(1)
    ELSE IF op.k = "mem"
    THEN IF op.n = "this" /\ regs[op.v].k = "fat" THEN Load(heap, regs[op.v], PointerSize)
         ELSE IF op.n = "Length" /\ regs[op.v].k = "obj" /\ regs[op.v].v \in DOMAIN lengths
         THEN IntV(lengths[regs[op.v].v])
         ELSE Garbage
    ELSE IF op.k = "memat" THEN Load(heap, regs[op.v], op.d)
    ELSE op

\* the register file after writing val to operand dst (memory is not modelled)
Write(dst, val) == IF dst.k = "reg" THEN [regs EXCEPT ![dst.v] = val] ELSE regs

\* the index of the label instruction l in the function, 0 if it was never appended
LabelIndex(l) ==
    IF \E i \in 1..Len(mir) : mir[i].op = "LABEL" /\ mir[i].ops[1].v = l
    THEN CHOOSE i \in 1..Len(mir) : mir[i].op = "LABEL" /\ mir[i].ops[1].v = l
    ELSE 0

Goto(l) ==
    IF LabelIndex(l) = 0
    THEN pc' = "crashed" /\ mpc' = mpc
    ELSE pc' = "run" /\ mpc' = LabelIndex(l)

Fall == pc' = "run" /\ mpc' = mpc + 1

\* what is noted when the instruction carries a role
Event(e, type) == [e |-> e, il |-> CurMir.il, type |-> type, exc |-> regs[exception_reg]]

\* object->vtable->type, NULL for what is no object
TypeOfValue(val) == IF val.k = "obj" THEN heap[val.v] ELSE NULL

Stepped == steps' = steps + 1 /\ UNCHANGED lengths /\ JitIdle /\ TypesIdle

RunLabel ==
    /\ Running
    /\ CurMir.op = "LABEL"
    /\ Fall
    /\ trail' = IF CurMir.tag = "il" THEN Append(trail, Event("il", NULL)) ELSE trail
    /\ UNCHANGED << regs, heap, result >>
    /\ Stepped

\* MIR_UEXT32: zero extension of the low 32 bits; [k |-> "uext32", v |-> n] is
\* the number 2^32 + n
Uext32(val) ==
    IF val.k = "int" /\ val.v < 0 THEN [k |-> "uext32", v |-> val.v, n |-> ""] ELSE val

\* MIR_EXT32: sign extension of the low 32 bits
Ext32(val) == IF val.k = "uext32" THEN IntV(val.v) ELSE val

RunMove ==
    /\ Running
    /\ CurMir.op \in { "MOV", "FMOV", "DMOV", "UEXT32", "F2D", "ALLOCA", "ZEROFILL",
                       "MEMCPY", "CAST_OBJ_TO_INTERFACE", "EXT32" }
    /\ CurMir.tag \notin { "field", "element" }
    /\ Fall
    /\ regs' = IF CurMir.op \in { "MOV", "FMOV", "DMOV", "F2D" }
               THEN Write(CurMir.ops[1], Val(CurMir.ops[2]))
               ELSE IF CurMir.op = "UEXT32"
               THEN Write(CurMir.ops[1], Uext32(Val(CurMir.ops[2])))
               ELSE IF CurMir.op = "EXT32"
               THEN Write(CurMir.ops[1], Ext32(Val(CurMir.ops[2])))
               ELSE IF CurMir.op = "MEMCPY" /\ Len(CurMir.ops) = 2
                       /\ Val(CurMir.ops[2]).k = "fat"
               THEN Write(CurMir.ops[1], Val(CurMir.ops[2]))
               ELSE regs
    /\ trail' = IF CurMir.tag = "throw"
                THEN Append(trail, Event("throw", TypeOfValue(Val(CurMir.ops[2]))))
                ELSE trail
    /\ UNCHANGED << heap, result >>
    /\ Stepped

RunJump ==
    /\ Running
    /\ CurMir.op = "JMP"
    /\ Goto(CurMir.ops[1].v)
    /\ UNCHANGED << regs, heap, result, trail >>
    /\ Stepped

\* the readings of a value as zero / non-zero: an unwritten register may read
\* either way
Truths(val) ==
    IF val.k = "uninit" THEN BOOLEAN ELSE { val # IntV(0) }

RunBranch ==
    /\ Running
    /\ CurMir.op \in { "BT", "BF", "BTS", "BFS" }
    /\ \E t \in Truths(Val(CurMir.ops[2])) :
          /\ IF t = (CurMir.op \in { "BT", "BTS" }) THEN Goto(CurMir.ops[1].v) ELSE Fall
          /\ regs' = IF Val(CurMir.ops[2]).k = "uninit"
                     THEN Write(CurMir.ops[2], IF t THEN Garbage ELSE IntV(0))
                     ELSE regs
    /\ UNCHANGED << heap, result, trail >>
    /\ Stepped

\* the outcomes of comparing two values with a compare-and-branch code
Compares(code, a, b) ==
    IF a.k = "uninit" \/ b.k = "uninit" THEN BOOLEAN
    ELSE IF code \in { "BEQ", "BEQS" } THEN { a = b }
    ELSE IF a.k = "int" /\ b.k = "int" THEN { a.v >= b.v }
    ELSE BOOLEAN

RunCompare ==
    /\ Running
    /\ CurMir.op \in { "BEQ", "BEQS", "BGE" }
    /\ \E t \in Compares(CurMir.op, Val(CurMir.ops[2]), Val(CurMir.ops[3])) :
          IF t THEN Goto(CurMir.ops[1].v) ELSE Fall
    /\ UNCHANGED << regs, heap, result, trail >>
    /\ Stepped

RunSwitch ==
    /\ Running
    /\ CurMir.op = "SWITCH"
    /\ LET sel == Val(CurMir.ops[1])
       IN  IF sel.k = "int" /\ sel.v >= 0 /\ sel.v + 2 <= Len(CurMir.ops)
           THEN Goto(CurMir.ops[sel.v + 2].v)
           ELSE pc' = "crashed" /\ mpc' = mpc
    /\ UNCHANGED << regs, heap, result, trail >>
    /\ Stepped

Crash == pc' = "crashed" /\ mpc' = mpc

\* isinstance(object, type)
isinstance(object, type) ==
    IF object = IntV(0) THEN TRUE
    ELSE type_is_verifier_assignable_to(TypeOfValue(object), type)

\* gc_new: a new object of the type, or null when the allocation fails
RunGcNew ==
    /\ Running
    /\ CurMir.op = "CALL" /\ CurMir.ops[1].n = "gc_new"
    /\ Fall
    /\ \/ /\ regs' = Write(CurMir.ops[2], IntV(0))
          /\ heap' = heap
       \/ /\ Len(heap) < Len(method.Parameters) + MaxAllocs
          /\ heap' = Append(heap, Val(CurMir.ops[3]).n)
          /\ regs' = Write(CurMir.ops[2], ObjV(Len(heap) + 1))
    /\ UNCHANGED << result, trail >>
    /\ Stepped

\* the runtime helpers get_array_type and isinstance
RunHelper ==
    /\ Running
    /\ CurMir.op = "CALL" /\ CurMir.ops[1].n \in { "get_array_type", "is_instance" }
    /\ IF CurMir.ops[1].n = "get_array_type"
       THEN /\ regs' = Write(CurMir.ops[2], RefOp(get_array_type(CurMir.ops[3].n)))
            /\ Fall
       ELSE IF Val(CurMir.ops[3]).k \in { "obj", "int" }
       THEN /\ regs' = Write(CurMir.ops[2],
                             IF isinstance(Val(CurMir.ops[3]), CurMir.ops[4].n)
                             THEN IntV(1) ELSE IntV(0))
            /\ Fall
       ELSE regs' = regs /\ Crash
    /\ UNCHANGED << heap, result, trail >>
    /\ Stepped

\* a call of a managed constructor: it returns no exception, or one it raised
RunCtor ==
    /\ Running
    /\ CurMir.op = "CALL" /\ CurMir.ops[1].n = ".ctor"
    /\ IF Val(CurMir.ops[3]).k # "obj"
       THEN Crash /\ UNCHANGED << regs, heap >>
       ELSE /\ Fall
            /\ \/ /\ regs' = Write(CurMir.ops[2], IntV(0))
                  /\ heap' = heap
               \/ \E T \in CalleeExceptionTypes :
                     /\ Len(heap) < Len(method.Parameters) + MaxAllocs
                     /\ heap' = Append(heap, T)
                     /\ regs' = Write(CurMir.ops[2], ObjV(Len(heap) + 1))
    /\ UNCHANGED << result, trail >>
    /\ Stepped

DivisionCodes == { "DIV", "DIVS", "UDIV", "UDIVS", "MOD", "MODS", "UMOD", "UMODS" }

ArithCodes == { "ADD", "ADDS", "MUL" } \cup DivisionCodes

\* the result of an integer instruction on two integers
Compute(code, a, b) ==
    IF code \in { "ADD", "ADDS" } THEN a + b
    ELSE IF code = "MUL" THEN a * b
    ELSE IF code \in { "DIV", "DIVS", "UDIV", "UDIVS" } THEN a \div b
    ELSE a % b

\* an arithmetic instruction; a division by zero traps
RunArith ==
    /\ Running
    /\ CurMir.op \in ArithCodes
    /\ CurMir.tag # "element"
    /\ LET a == Val(CurMir.ops[2])
           b == Val(CurMir.ops[3])
       IN  IF CurMir.op \in DivisionCodes /\ b = IntV(0)
           THEN Crash /\ regs' = regs
           ELSE /\ Fall
                /\ regs' = Write(CurMir.ops[1],
                                 IF a.k = "int" /\ b.k = "int" /\ a.v >= 0 /\ b.v > 0
                                 THEN IntV(Compute(CurMir.op, a.v, b.v))
                                 ELSE IF a.k = "int" /\ b.k = "int"
                                         /\ CurMir.op \in { "ADD", "ADDS", "MUL" }
                                 THEN IntV(Compute(CurMir.op, a.v, b.v))
                                 ELSE IF { a.k, b.k } = { "int", "uext32" }
                                         /\ CurMir.op = "ADD"
                                 THEN [k |-> "uext32", v |-> a.v + b.v, n |-> ""]
                                 ELSE Garbage)
    /\ UNCHANGED << heap, result, trail >>
    /\ Stepped

RunRet ==
    /\ Running
    /\ CurMir.op = "RET"
    /\ result' = [exception |-> Val(CurMir.ops[1]),
                  value |-> IF Len(CurMir.ops) >= 2 THEN Val(CurMir.ops[2])
                            ELSE NoValue]
    /\ trail' = Append(trail, Event("ret", CurMir.tag))
    /\ pc' = "returned"
    /\ UNCHANGED << mpc, regs, heap >>
    /\ Stepped

-----------------------------------------------------------------------------
(***************************************************************************)
(* The verifier relation on its own: three types are drawn and the         *)
(* relation is asked about each pair.                                      *)
(***************************************************************************)

TypesInit ==
    /\ pc = "types"
    /\ ty \in TypesOrNull \X TypesOrNull \X TypesOrNull
    /\ rel = << >>
    /\ method = NoMethod
    /\ il_ptr = 0
    /\ il_offset = 0
    /\ last_cf = OPCODE_CONTROL_FLOW_INVALID
    /\ stack = << >>
    /\ pc_to_stack_snapshot = << >>
    /\ clause_to_label = << >>
    /\ name_gen = 0
    /\ label_gen = 0
    /\ mir = << >>
    /\ err = NO_ERROR
    /\ mpc = 0
    /\ regs = << >>
    /\ heap = << >>
    /\ result = NoResult
    /\ trail = << >>
    /\ steps = 0
    /\ lengths = << >>
    /\ threads = << >>
    /\ shared = << >>
    /\ assembly = << >>

\* ask type_is_verifier_assignable_to(Q, Q), (Q, R), (R, S) and (Q, S)
AskAssignable ==
    /\ pc = "types"
    /\ rel' = [ qq |-> type_is_verifier_assignable_to(ty[1], ty[1]),
                qr |-> type_is_verifier_assignable_to(ty[1], ty[2]),
                rs |-> type_is_verifier_assignable_to(ty[2], ty[3]),
                qs |-> type_is_verifier_assignable_to(ty[1], ty[3]) ]
    /\ pc' = "asked"
    /\ UNCHANGED << ty, threads, shared, assembly >>
    /\ JitIdle /\ RunIdle

\* ask type_is_compatible_with(T, U)
AskCompatible ==
    /\ pc = "types"
    /\ rel' = [ compatible |-> type_is_compatible_with(ty[1], ty[2]) ]
    /\ pc' = "compared"
    /\ UNCHANGED << ty, threads, shared, assembly >>
    /\ JitIdle /\ RunIdle

TypesNext == AskAssignable \/ AskCompatible

SpecTypes == TypesInit /\ [][TypesNext]_vars

-----------------------------------------------------------------------------

\* jit_method failed: its cleanup finishes the function; jit_assembly rethrows
\* to its own cleanup, which finishes the module and frees the context
JitAssemblyRethrow ==
    /\ pc = "failed"
    /\ assembly' = [assembly EXCEPT !.module = "finished", !.context = "freed",
                                    !.ret = err]
    /\ pc' = "rejected"
    /\ JitIdle /\ RunIdle /\ UNCHANGED << ty, rel, threads, shared >>

\* jit_method succeeded: MIR_finish_module, jit_load_assembly (the module moves
\* to the shared context, is loaded and linked), jit_setup_vtables, and the
\* cleanup frees the context the module has left
JitAssemblyFinish ==
    /\ pc = "translated"
    /\ ~assembly.linked
    /\ assembly' = [assembly EXCEPT !.module = "finished", !.context = "freed",
                                    !.loaded = TRUE, !.linked = TRUE,
                                    !.virtual_functions = << assembly.MirFunc >>,
                                    !.ret = NO_ERROR]
    /\ UNCHANGED pc
    /\ JitIdle /\ RunIdle /\ UNCHANGED << ty, rel, threads, shared >>

Init == JitInit

Next ==
    \/ JitPrologue \/ JitHead \/ JitEnd \/ JitAssemblyRethrow \/ JitAssemblyFinish
    \/ JitNop \/ JitLdarg \/ JitLdcI4 \/ JitLdnull \/ JitPop \/ JitArith
    \/ JitNewobj \/ JitBox \/ JitNewarr \/ JitRet
    \/ JitBr \/ JitBrCond \/ JitCompareBranch \/ JitSwitch
    \/ JitThrow \/ JitLeave \/ JitEndfinally
    \/ RunBegin \/ RunLabel \/ RunMove \/ RunJump \/ RunBranch \/ RunCompare
    \/ RunSwitch \/ RunGcNew \/ RunHelper \/ RunCtor \/ RunArith \/ RunRet

Spec == Init /\ [][Next]_vars

-----------------------------------------------------------------------------
(***************************************************************************)
(* Properties of the translator.                                           *)
(***************************************************************************)

\* the types of the entries of an abstract stack
TypesOf(entries) == [i \in 1..Len(entries) |-> entries[i].type]

\* the instruction at il_offset has just been translated without error
Translated(ops) ==
    /\ pc = "head"
    /\ il_ptr > il_offset
    /\ CurIns.op \in ops

\* the offsets the instruction at il_offset may branch to
BranchTargets ==
    IF CurIns.op = "switch"
    THEN { NextPtr + CurIns.dests[k] : k \in 1..Len(CurIns.dests) }
    ELSE IF IsBranchOp(CurIns.op) THEN { NextPtr + CurIns.arg }
    ELSE { }

\* C1: at every offset, the abstract stack the translator continues with
\* has the length and, slot by slot, the types of the snapshot recorded for
\* that offset, so that the stack is the same along every incoming edge
C1_StackEqualsSnapshot ==
    pc = "opcode" =>
        TypesOf(stack) = TypesOf(pc_to_stack_snapshot[il_offset].stack)

\* the slots of the incoming stack are, one by one, verifier-assignable to the
\* slots of the recorded snapshot
AssignableTo(incoming, recorded) ==
    /\ Len(incoming) = Len(recorded)
    /\ \A i \in 1..Len(recorded) :
          type_is_verifier_assignable_to(incoming[i].type, recorded[i].type)

BackwardOps == { "br.s", "brtrue.s", "brfalse.s", "beq.s", "switch", "leave.s" }

SameRegions(source, target) ==
    \A i \in 1..Len(method.ExceptionHandlingClauses) :
        LET clause == method.ExceptionHandlingClauses[i]
        IN  /\ InTry(clause, source) = InTry(clause, target)
            /\ InHandler(clause, source) = InHandler(clause, target)

\* C3: every accepted br, brtrue/brfalse, compare-and-branch and switch
\* target lies, for each clause, in the try range and in the handler range
\* exactly when the branch does
C3_BranchesKeepRegions ==
    Translated({ "br.s", "brtrue.s", "brfalse.s", "beq.s", "switch" }) =>
        \A t \in BranchTargets : SameRegions(il_offset, t)


\* the division that the zero guard at index i of the function stands in front of
DivisionAfter(i) ==
    CHOOSE j \in (i + 1)..Len(mir) :
        /\ mir[j].tag = "arith"
        /\ \A k \in (i + 1)..(j - 1) : mir[k].tag # "arith"

\* C4: the guard in front of a division tests the division's denominator
\* register; DivideByZeroException is made only when the denominator is zero and
\* the division is reached only with a denominator that is not zero
C4_GuardTestsDenominator ==
    /\ pc = "translated" =>
          \A i \in 1..Len(mir) :
              mir[i].tag = "div.check" => mir[i].ops[2] = mir[DivisionAfter(i)].ops[3]
    /\ Running /\ CurMir.tag = "throw_new"
          /\ TypeOfValue(Val(CurMir.ops[2])) = tSystem_DivideByZeroException =>
              Val(mir[DivisionAfter(mpc)].ops[3]) = IntV(0)
    /\ Running /\ CurMir.tag = "arith" /\ CurMir.op \in DivisionCodes =>
          Val(CurMir.ops[3]) # IntV(0)

\* the catch clauses whose try range holds the offset and whose catch type is
\* the thrown type or one of its base types
MatchingCatches(off, type) ==
    { i \in 1..Len(method.ExceptionHandlingClauses) :
        LET clause == method.ExceptionHandlingClauses[i]
        IN  /\ clause.Flags = COR_ILEXCEPTION_CLAUSE_EXCEPTION
            /\ InTry(clause, off)
            /\ ThrownReaches(type, clause.CatchType) }

\* the finally clauses whose try range holds the offset
EnclosingFinallies(off) ==
    { i \in 1..Len(method.ExceptionHandlingClauses) :
        LET clause == method.ExceptionHandlingClauses[i]
        IN  clause.Flags = COR_ILEXCEPTION_CLAUSE_FINALLY /\ InTry(clause, off) }

\* the event is the passing of an IL offset inside the handler of one of the clauses
InHandlersOf(event, clauses) ==
    /\ event.e = "il"
    /\ \E i \in clauses : InHandler(method.ExceptionHandlingClauses[i], event.il)

\* the first event after position p that is not inside the handlers of the
\* clauses, 0 when the run has not got that far
FirstOutside(p, clauses) ==
    LET later == { q \in (p + 1)..Len(trail) : ~InHandlersOf(trail[q], clauses) }
    IN  IF later = { } THEN 0 ELSE CHOOSE q \in later : \A r \in later : q <= r

\* C5: after a throw inside try ranges, and after the finally handlers
\* that protect the throwing offset, control is in the handler of an enclosing
\* catch clause whose type is the thrown type or one of its bases when there is
\* one, and otherwise the function returns the exception with a zero value
C5_ThrowReachesCatch ==
    \A p \in 1..Len(trail) :
        trail[p].e = "throw" /\ FirstOutside(p, EnclosingFinallies(trail[p].il)) # 0 =>
            LET q == FirstOutside(p, EnclosingFinallies(trail[p].il))
                catches == MatchingCatches(trail[p].il, trail[p].type)
            IN  IF catches # { }
                THEN /\ trail[q].e = "il"
                     /\ \E i \in catches :
                           trail[q].il = method.ExceptionHandlingClauses[i].HandlerOffset
                ELSE /\ trail[q].e = "ret"
                     /\ pc = "returned" =>
                           /\ TypeOfValue(result.exception) = trail[p].type
                           /\ result.value \in { NoValue, IntV(0) }

\* the offset a leave at offset off transfers to
LeaveTarget(off) == off + InsSize(method.Il[off]) + method.Il[off].arg

\* the event is the passing of a leave
IsLeave(event) == event.e = "il" /\ method.Il[event.il].op = "leave.s"

\* the finally clauses a leave from o to t has to run: their try range holds o
\* and does not hold t
LeaveChain(o, t) ==
    { i \in EnclosingFinallies(o) : ~InTry(method.ExceptionHandlingClauses[i], t) }

\* C6: after a leave at o with target t the path runs the finally
\* handlers whose try range holds o and not t, innermost first, and the first
\* offset it passes outside these handlers is t
C6_LeaveRunsItsFinallies ==
    \A p \in 1..Len(trail) :
        IsLeave(trail[p]) =>
            LET o == trail[p].il
                t == LeaveTarget(o)
                chain == LeaveChain(o, t)
                later == { q \in (p + 1)..Len(trail) :
                             trail[q].e = "il" /\ ~InHandlersOf(trail[q], chain) }
            IN  \A q \in later :
                    (\A r \in later : q <= r) =>
                        /\ trail[q].il = t
                        /\ \A i \in chain :
                              \E r \in (p + 1)..(q - 1) :
                                  trail[r].il =
                                      method.ExceptionHandlingClauses[i].HandlerOffset


\* the instructions emitted for the IL instruction at offset off, without the
\* label of the offset
EmittedFor(off) == SelectSeq(mir, LAMBDA m : m.il = off /\ m.tag # "il")

\* the clause whose handler holds the endfinally at il_offset
EndfinallyClause ==
    HandlerClauseFrom(method.ExceptionHandlingClauses, 1, il_offset)

\* the function is about to run the jump of an endfinally that is last in its chain
AtLastEndfinallyJump ==
    /\ Running
    /\ CurMir.tag = "endfinally.jmp"
    /\ mpc > 2
    /\ mir[mpc - 2].tag = "endfinally.ret"

\* C7: an endfinally emits a jump to the destination recorded on its
\* clause; a clause that is last in its chain has in front of the jump a test of
\* the exception register that returns the exception with a zero value when it
\* is not zero, so that the return is made only with an exception and the jump
\* only without one; a clause that is not last emits the jump alone
C7_EndfinallyJumpsOrRethrows ==
    /\ Translated({ "endfinally" }) =>
          LET entry == clause_to_label[EndfinallyClause]
              code == EmittedFor(il_offset)
          IN  IF entry.last_in_chain
              THEN /\ Len(code) = 4
                   /\ code[1].op = "BF"
                   /\ code[1].ops = << code[3].ops[1], RegOp(exception_reg) >>
                   /\ code[2].op = "RET"
                   /\ code[2].ops \in { << RegOp(exception_reg) >>,
                                        << RegOp(exception_reg), IntOp(0) >> }
                   /\ code[3].op = "LABEL"
                   /\ code[4].op = "JMP"
                   /\ code[4].ops = << LabelOp(entry.endfinally) >>
              ELSE /\ Len(code) = 1
                   /\ code[1].op = "JMP"
                   /\ code[1].ops = << LabelOp(entry.endfinally) >>
    /\ Running /\ CurMir.tag = "endfinally.ret" => regs[exception_reg] # IntV(0)
    /\ AtLastEndfinallyJump => regs[exception_reg] = IntV(0)

\* an endfinally that is last in its chain returned the exception it found
C7_Witness ==
    /\ pc = "returned"
    /\ trail[Len(trail)].type = "endfinally.ret"
    /\ result.exception.k = "obj"
    /\ \E p \in 1..Len(trail) : IsLeave(trail[p])

\* the offset lies in the handler of some clause
InSomeHandler(off) ==
    \E i \in 1..Len(method.ExceptionHandlingClauses) :
        InHandler(method.ExceptionHandlingClauses[i], off)

\* C8: after a leave inside a handler region the exception register is
\* zero at every finally handler of the leave's chain, and the chain does not
\* end in the return of the handled exception
C8_FinallyEnteredClean ==
    \A p \in 1..Len(trail) :
        IsLeave(trail[p]) /\ InSomeHandler(trail[p].il) =>
            LET chain == EnclosingFinallies(trail[p].il)
                q == FirstOutside(p, chain)
                last == IF q = 0 THEN Len(trail) ELSE q
            IN  /\ \A r \in (p + 1)..last :
                      InHandlersOf(trail[r], chain) => trail[r].exc = IntV(0)
                /\ q # 0 => trail[q].type # "endfinally.ret"

\* the call at index i of the function allocates an OutOfMemoryException
AllocatesOutOfMemory(i) == mir[i].ops[3] = RefOp(tSystem_OutOfMemoryException)

\* C9: in a translated function every call of gc_new, unless it allocates
\* an OutOfMemoryException, is followed at once by a branch that skips, when the
\* result is not zero, the making and throwing of a new OutOfMemoryException;
\* the allocation of an OutOfMemoryException is followed by no such test
C9_AllocationsChecked ==
    pc = "translated" =>
        \A i \in 1..Len(mir) :
            mir[i].tag = "gc_new" =>
                IF AllocatesOutOfMemory(i)
                THEN i < Len(mir) => mir[i + 1].tag # "gc_new.check"
                ELSE /\ i + 2 <= Len(mir)
                     /\ mir[i + 1].op = "BT"
                     /\ mir[i + 1].ops[2] = mir[i].ops[2]
                     /\ mir[i + 2].tag = "gc_new"
                     /\ AllocatesOutOfMemory(i + 2)
                     /\ \E j \in (i + 3)..Len(mir) :
                           /\ mir[j].op = "LABEL"
                           /\ mir[j].ops[1] = mir[i + 1].ops[1]
                           /\ \E k \in (i + 3)..(j - 1) :
                                 /\ mir[k].tag = "throw_new"
                                 /\ mir[k].ops[2] = mir[i + 2].ops[2]

\* a translated function calls gc_new for a type other than OutOfMemoryException
\* and, in the check that follows, for OutOfMemoryException itself
C9_Witness ==
    /\ pc = "translated"
    /\ \E i \in 1..Len(mir) : mir[i].tag = "gc_new" /\ ~AllocatesOutOfMemory(i)
    /\ \E i \in 1..Len(mir) : mir[i].tag = "gc_new" /\ AllocatesOutOfMemory(i)

\* C10: type_is_verifier_assignable_to holds between every type and
\* itself, and holds from Q to S whenever it holds from Q to R and from R to S
C10_ReflexiveTransitive ==
    pc = "asked" =>
        /\ rel.qq
        /\ rel.qr /\ rel.rs => rel.qs


\* the compatible-with relation as it is specified: identity; an object
\* reference with its direct base, an interface it directly implements or a type
\* of its base chain; two arrays with array-element-compatible elements; two
\* by-refs whose referents have the same verification type
SpecifiedCompatible(T, U) ==
    \/ T = U
    \/ /\ T # NULL /\ U # NULL
       /\ \/ /\ type_is_object_ref(T)
             /\ \/ U = type_get_direct_base_class(T)
                \/ type_is_interface_directly_implemented_by(U, T)
                \/ BaseChainReaches(BaseType(T), U)
          \/ /\ IsArray(T) /\ IsArray(U)
             /\ type_is_array_element_compatible_with(ElementType(T), ElementType(U))
          \/ /\ IsByRef(T) /\ IsByRef(U)
             /\ type_get_verification_type(BaseType(T))
                   = type_get_verification_type(BaseType(U))

\* C11: type_is_compatible_with(T, U) answers as the specified relation
\* does; a by-ref type is compatible with itself and with a by-ref whose referent
\* has the same verification type, and with nothing else
C11_CompatibleAsSpecified ==
    pc = "compared" =>
        /\ rel.compatible = SpecifiedCompatible(ty[1], ty[2])
        /\ IsByRef(ty[1]) /\ rel.compatible => IsByRef(ty[2])

-----------------------------------------------------------------------------
(***************************************************************************)
(* Threads calling into the type system (types.c).  Every thread is in one *)
(* call; a step is one access to the memory the threads share.  A store    *)
(* made with a plain assignment inside a monitor is held back until it is  *)
(* written to memory: the stores of one thread reach memory in any order,  *)
(* all of them before the monitor is released, and a load made without the *)
(* monitor reads what has reached memory.                                  *)
(***************************************************************************)

\* the threads that call concurrently
NThreads == 3

Threads == 1..NThreads

\* the translator, the function runner and the relation check at rest
NothingElse ==
    /\ method = NoMethod
    /\ il_ptr = 0
    /\ il_offset = 0
    /\ last_cf = OPCODE_CONTROL_FLOW_INVALID
    /\ stack = << >>
    /\ pc_to_stack_snapshot = << >>
    /\ clause_to_label = << >>
    /\ name_gen = 0
    /\ label_gen = 0
    /\ mir = << >>
    /\ err = NO_ERROR
    /\ mpc = 0
    /\ regs = << >>
    /\ heap = << >>
    /\ result = NoResult
    /\ trail = << >>
    /\ steps = 0
    /\ lengths = << >>
    /\ ty = << NULL, NULL, NULL >>
    /\ rel = << >>
    /\ assembly = << >>

ElseIdle == JitIdle /\ RunIdle /\ UNCHANGED << ty, rel, assembly >>

\* a thread's step: its record changes, the other threads stay where they are
Step(t, next) == threads' = [threads EXCEPT ![t] = next]

\* monitor_enter(type) is possible: the monitor is free or the caller's own
MonitorFree(t) == shared.monitor \in { 0, t }

\* the two derivatives of a type: type->ArrayType and type->ByRefType
DerivativeKinds == { "ArrayType", "ByRefType" }

\* a thread before its call of get_array_type(T) / get_by_ref_type(T)
DerivativeCaller ==
    [ pc |-> "call", kind |-> "", derivative |-> 0, pending |-> { }, ret |-> 0,
      fast |-> FALSE, filled |-> FALSE ]

DerivativeInit ==
    /\ pc = "derivatives"
    /\ threads = [t \in Threads |-> DerivativeCaller]
    /\ shared = [ monitor |-> 0,
                  slot |-> [k \in DerivativeKinds |-> 0],   \* 0 is NULL
                  types |-> << >> ]                         \* the System_Type objects made
    /\ NothingElse

\* the first test, made without the monitor: if (type->ArrayType != NULL) return
\* type->ArrayType; the caller then uses the derivative as it finds it in memory
DerivativeFastPath(t) ==
    /\ pc = "derivatives"
    /\ threads[t].pc = "call"
    /\ \E kind \in DerivativeKinds :
          IF shared.slot[kind] # 0
          THEN Step(t, [threads[t] EXCEPT !.pc = "done", !.kind = kind, !.fast = TRUE,
                                          !.ret = shared.slot[kind],
                                          !.filled = shared.types[shared.slot[kind]].filled])
          ELSE Step(t, [threads[t] EXCEPT !.pc = "enter", !.kind = kind])
    /\ UNCHANGED << pc, shared >>
    /\ ElseIdle

\* monitor_enter(type)
DerivativeMonitorEnter(t) ==
    /\ pc = "derivatives"
    /\ threads[t].pc = "enter"
    /\ MonitorFree(t)
    /\ shared' = [shared EXCEPT !.monitor = t]
    /\ Step(t, [threads[t] EXCEPT !.pc = "recheck"])
    /\ UNCHANGED pc
    /\ ElseIdle

\* the second test, made with the monitor: on a derivative monitor_exit(type) and
\* return type->ArrayType
DerivativeRecheck(t) ==
    /\ pc = "derivatives"
    /\ threads[t].pc = "recheck"
    /\ IF shared.slot[threads[t].kind] # 0
       THEN /\ shared' = [shared EXCEPT !.monitor = 0]
            /\ Step(t, [threads[t] EXCEPT
                          !.pc = "done", !.ret = shared.slot[threads[t].kind],
                          !.filled = shared.types[shared.slot[threads[t].kind]].filled])
       ELSE /\ shared' = shared
            /\ Step(t, [threads[t] EXCEPT !.pc = "allocate"])
    /\ UNCHANGED pc
    /\ ElseIdle

\* GC_NEW(tSystem_Type): a zeroed type object
DerivativeAllocate(t) ==
    /\ pc = "derivatives"
    /\ threads[t].pc = "allocate"
    /\ shared' = [shared EXCEPT !.types = Append(@, [kind |-> threads[t].kind,
                                                     filled |-> FALSE])]
    /\ Step(t, [threads[t] EXCEPT !.pc = "fill", !.derivative = Len(shared.types) + 1])
    /\ UNCHANGED pc
    /\ ElseIdle

\* the assignments to the fields of the new type
DerivativeFill(t) ==
    /\ pc = "derivatives"
    /\ threads[t].pc = "fill"
    /\ Step(t, [threads[t] EXCEPT !.pc = "publish", !.pending = @ \cup { "fields" }])
    /\ UNCHANGED << pc, shared >>
    /\ ElseIdle

\* GC_UPDATE(type, ArrayType, ArrayType)
DerivativePublish(t) ==
    /\ pc = "derivatives"
    /\ threads[t].pc = "publish"
    /\ Step(t, [threads[t] EXCEPT !.pc = "exit", !.pending = @ \cup { "slot" }])
    /\ UNCHANGED << pc, shared >>
    /\ ElseIdle

\* memory after the store named has been written to it
Written(t, store, mem) ==
    IF store = "fields"
    THEN [mem EXCEPT !.types[threads[t].derivative].filled = TRUE]
    ELSE [mem EXCEPT !.slot[threads[t].kind] = threads[t].derivative]

\* one of the stores a thread made reaches memory
StoreReachesMemory(t) ==
    /\ pc = "derivatives"
    /\ \E store \in threads[t].pending :
          /\ shared' = Written(t, store, shared)
          /\ Step(t, [threads[t] EXCEPT !.pending = @ \ { store }])
    /\ UNCHANGED pc
    /\ ElseIdle

\* monitor_exit(type): what the thread stored is in memory when the monitor is free
DerivativeMonitorExit(t) ==
    /\ pc = "derivatives"
    /\ threads[t].pc = "exit"
    /\ threads[t].pending = { }
    /\ shared' = [shared EXCEPT !.monitor = 0]
    /\ Step(t, [threads[t] EXCEPT !.pc = "return"])
    /\ UNCHANGED pc
    /\ ElseIdle

\* return type->ArrayType
DerivativeReturn(t) ==
    /\ pc = "derivatives"
    /\ threads[t].pc = "return"
    /\ Step(t, [threads[t] EXCEPT
                  !.pc = "done", !.ret = shared.slot[threads[t].kind],
                  !.filled = shared.types[shared.slot[threads[t].kind]].filled])
    /\ UNCHANGED << pc, shared >>
    /\ ElseIdle

DerivativeNext ==
    \E t \in Threads :
        \/ DerivativeFastPath(t) \/ DerivativeMonitorEnter(t) \/ DerivativeRecheck(t)
        \/ DerivativeAllocate(t) \/ DerivativeFill(t) \/ DerivativePublish(t)
        \/ StoreReachesMemory(t) \/ DerivativeMonitorExit(t) \/ DerivativeReturn(t)

SpecDerivatives == DerivativeInit /\ [][DerivativeNext]_vars

\* the threads that have returned from a call for the derivative of the kind
Returned(kind) == { t \in Threads : threads[t].pc = "done" /\ threads[t].kind = kind }

\* C12: the calls for one derivative of T all return the same type object
\* and at most one type object is made for each derivative; a caller that finds
\* the derivative by the first test, without the monitor, finds it with its
\* fields assigned; no caller returns holding T's monitor
C12_OneDerivativeFullyInitialised ==
    pc = "derivatives" =>
        /\ \A kind \in DerivativeKinds :
              /\ \A t, u \in Returned(kind) : threads[t].ret = threads[u].ret
              /\ \A t \in Returned(kind) : threads[t].ret # 0
              /\ Cardinality({ i \in 1..Len(shared.types) :
                                  shared.types[i].kind = kind }) <= 1
        /\ \A t \in Threads :
              threads[t].pc = "done" => shared.monitor # t /\ threads[t].filled

-----------------------------------------------------------------------------
(***************************************************************************)
(* Threads calling type_make_generic(G, A) for one generic definition G.   *)
(***************************************************************************)

\* type->GenericParameterPosition: negative for a type the loader set up; a type
\* made by GC_NEW in get_array_type, get_by_ref_type or expand_type is zeroed and
\* the field is never assigned
GenericParameterPosition(T) == IF T \in NamedTypes THEN 0 - 1 ELSE 0

\* the concrete types handed over as type arguments
GenericArgumentTypes == { tSystem_Int32, tSystem_String, get_array_type(tSystem_Int32) }

\* the argument lists: G has two generic parameters
GenericArgumentLists == GenericArgumentTypes \X GenericArgumentTypes

\* the first loop of expand_type: do the arguments name no generic parameter
real_instance(arguments) ==
    \A i \in 1..Len(arguments) : ~(GenericParameterPosition(arguments[i]) >= 0)

\* the search of expand_type from position i of the chain on: the instance whose
\* arguments are, position by position, the arguments asked for (0: none)
RECURSIVE FindInstance(_, _, _, _)
FindInstance(chain, types, i, arguments) ==
    IF i > Len(chain) THEN 0
    ELSE IF \A k \in 1..Len(arguments) : arguments[k] = types[chain[i]].GenericArguments[k]
    THEN chain[i]
    ELSE FindInstance(chain, types, i + 1, arguments)

\* a thread before its call of type_make_generic(G, A)
GenericCaller == [ pc |-> "call", arguments |-> << >>, instance |-> 0, ret |-> 0 ]

GenericInit ==
    /\ pc = "generics"
    /\ threads = [t \in Threads |-> GenericCaller]
    /\ shared = [ monitor |-> 0,
                  chain |-> << >>,        \* G->NextGenericInstance and on, head first
                  types |-> << >> ]       \* the System_Type objects made
    /\ NothingElse

\* type_make_generic(type, arguments) up to monitor_enter(type)
GenericMonitorEnter(t) ==
    /\ pc = "generics"
    /\ threads[t].pc = "call"
    /\ MonitorFree(t)
    /\ shared' = [shared EXCEPT !.monitor = t]
    /\ \E arguments \in GenericArgumentLists :
          Step(t, [threads[t] EXCEPT !.pc = "search", !.arguments = arguments])
    /\ UNCHANGED pc
    /\ ElseIdle

\* the search for an existing instance; when found monitor_exit(type) and return it
GenericSearch(t) ==
    /\ pc = "generics"
    /\ threads[t].pc = "search"
    /\ \E inst \in { FindInstance(shared.chain, shared.types, 1, threads[t].arguments) } :
          IF inst # 0
          THEN /\ shared' = [shared EXCEPT !.monitor = 0]
               /\ Step(t, [threads[t] EXCEPT !.pc = "done", !.ret = inst])
          ELSE /\ shared' = shared
               /\ Step(t, [threads[t] EXCEPT !.pc = "create"])
    /\ UNCHANGED pc
    /\ ElseIdle

\* instance not found: GC_NEW(tSystem_Type) and the instance's fields
GenericCreate(t) ==
    /\ pc = "generics"
    /\ threads[t].pc = "create"
    /\ shared' = [shared EXCEPT
                    !.types = Append(@, [GenericArguments |-> threads[t].arguments])]
    /\ Step(t, [threads[t] EXCEPT !.pc = "link", !.instance = Len(shared.types) + 1])
    /\ UNCHANGED pc
    /\ ElseIdle

\* if (real_instance) the instance becomes the first of the chain; monitor_exit(type)
\* and return instance
GenericLink(t) ==
    /\ pc = "generics"
    /\ threads[t].pc = "link"
    /\ shared' = [shared EXCEPT
                    !.chain = IF real_instance(threads[t].arguments)
                              THEN << threads[t].instance >> \o @ ELSE @,
                    !.monitor = 0]
    /\ Step(t, [threads[t] EXCEPT !.pc = "done", !.ret = threads[t].instance])
    /\ UNCHANGED pc
    /\ ElseIdle

GenericNext ==
    \E t \in Threads :
        \/ GenericMonitorEnter(t) \/ GenericSearch(t) \/ GenericCreate(t) \/ GenericLink(t)

SpecGenerics == GenericInit /\ [][GenericNext]_vars

\* C13: the calls of type_make_generic(G, A) with one argument list all
\* return the same instance, every instance made is in G's chain, made and linked
\* by a thread holding G's monitor, and no two instances of the chain have the
\* same argument list
C13_OneInstancePerArguments ==
    pc = "generics" =>
        /\ \A t, u \in Threads :
              /\ threads[t].pc = "done" /\ threads[u].pc = "done"
              /\ threads[t].arguments = threads[u].arguments
              => threads[t].ret = threads[u].ret
        /\ \A i, k \in 1..Len(shared.chain) :
              shared.types[shared.chain[i]].GenericArguments
                  = shared.types[shared.chain[k]].GenericArguments => i = k
        /\ \A t \in Threads :
              /\ threads[t].pc \in { "create", "link" } => shared.monitor = t
              /\ threads[t].pc = "done" =>
                    /\ shared.monitor # t
                    /\ \E i \in 1..Len(shared.chain) : shared.chain[i] = threads[t].ret

\* C14: when the translation of a method fails, jit_assembly returns an
\* error and nothing of the compilation is published: the method's MirFunc does
\* not refer to the rejected function, the module is neither loaded nor linked
\* into the shared context, and no vtable slot has been written
C14_FailureNotPublished ==
    pc = "rejected" =>
        /\ IS_ERROR(assembly.ret)
        /\ assembly.MirFunc = NULL
        /\ ~assembly.loaded /\ ~assembly.linked
        /\ \A i \in 1..Len(assembly.virtual_functions) : assembly.virtual_functions[i] = NULL

-----------------------------------------------------------------------------
(***************************************************************************)
(* Calls through the vtable, field and element access, mixed-width          *)
(* arithmetic: single-expression methods, translated and run with          *)
(* receivers of every runtime type, null references, arrays of every       *)
(* length and integers of either sign.                                     *)
(***************************************************************************)

tSystem_Type == "Type"

\* MIR_new_mem_op(ctx, type, disp, base, 0, 1)
MemAt(base, disp) == [k |-> "memat", v |-> base, n |-> "", d |-> disp]

\* case CEE_CALLVIRT: the load of the function pointer for a virtual method;
\* out is the operand the call goes through
CallvirtDispatch(c, operand_method, this_type, this_reg) ==
    IF ~operand_method.IsVirtual THEN [c EXCEPT !.out = RefOp(operand_method.Name)]
    ELSE With(new_reg(c, tSystem_Type), LAMBDA c1 :
         With(c1.out, LAMBDA temp_reg :
         With(Emit(c1, Insn("MOV", << RegOp(temp_reg), MemAt(this_reg, 0) >>), ""),
              LAMBDA c2 :
         With(IF type_is_interface(this_type)
              THEN Emit(c2, Insn("MOV", << RegOp(this_reg),
                                           MemAt(this_reg, PointerSize) >>), "")
              ELSE c2, LAMBDA c3 :
         With(IF type_is_interface(this_type) THEN 0 ELSE VtableHeader, LAMBDA offset :
         With(IF type_is_interface(this_type) THEN operand_method.VTableOffset
              ELSE IF type_is_interface(operand_method.DeclaringType)
              THEN type_get_interface_method_impl(this_type, operand_method).VTableOffset
              ELSE operand_method.VTableOffset, LAMBDA vtable_index :
         [Emit(c3, Insn("MOV", << RegOp(temp_reg),
                                  MemAt(temp_reg, offset + vtable_index * PointerSize) >>),
               "slot") EXCEPT !.out = RegOp(temp_reg)]))))))

\* case CEE_CALLVIRT, for an instance method without parameters that returns
\* nothing
CEE_CALLVIRT(c, operand_method) ==
    CHECK_AND_RETHROW(stack_pop(c), LAMBDA c1 :
    With(c1.out.type, LAMBDA this_type :
    With(c1.out.reg, LAMBDA this_reg :
    With(IF IsValueType(operand_method.DeclaringType)
         THEN get_by_ref_type(operand_method.DeclaringType)
         ELSE operand_method.DeclaringType, LAMBDA thisType :
    IF ~type_is_verifier_assignable_to(type_get_verification_type(this_type), thisType)
    THEN CHECK_FAIL(c1)
    ELSE
    CHECK_AND_RETHROW(jit_null_check(c1, this_reg, this_type), LAMBDA c2 :
    With(CallvirtDispatch(c2, operand_method, this_type, this_reg), LAMBDA c3 :
    With(Emit(c3, Insn("CALL", << RefOp(operand_method.Name), c3.out,
                                  RegOp(exception_reg), RegOp(this_reg) >>), "call"),
         LAMBDA c4 :
    With(NewLabel(c4), LAMBDA c5 :
    With(Emit(c5, Insn("BF", << LabelOp(c5.out), RegOp(exception_reg) >>), ""), LAMBDA c6 :
    CHECK_AND_RETHROW(jit_throw(c6, NULL), LAMBDA c7 :
    Emit(c7, Insn("LABEL", << LabelOp(c5.out) >>), "")))))))))))

JitCallvirt == Decode({ "callvirt" }, CEE_CALLVIRT(Ctx, MethodNamed(CurIns.type)))

\* ldarg.0; callvirt M; ret on a receiver of static type R
CallvirtMethod(R, M) ==
    Method("Callvirt", << Ins("ldarg", 0, NULL), Ins("callvirt", 0, M.Name),
                          Ins("ret", 0, NULL) >>,
           << R >>, NULL, 1, << >>)

ReceiverTypes == { tSystem_Object, tFoo, tBar, tIFoo }

CalledMethods == { Object_ToString, IFoo_M0, IFoo_M1, Foo_V, Foo_N }

\* System_Reflection_FieldInfo
FieldInfo(name, declaring, type, offset, static) ==
    [Name |-> name, DeclaringType |-> declaring, FieldType |-> type,
     MemoryOffset |-> offset, IsStatic |-> static]

Foo_f == FieldInfo("Foo::f", tFoo, tSystem_Int32, 16, FALSE)
Foo_b == FieldInfo("Foo::b", tFoo, tSystem_Boolean, 20, FALSE)
Foo_s == FieldInfo("Foo::s", tFoo, tSystem_Int32, 0, TRUE)

FieldInfos == { Foo_f, Foo_b, Foo_s }

FieldNamed(name) == CHOOSE F \in FieldInfos : F.Name = name

field_is_static(field) == field.IsStatic

\* while (base != NULL && base != operand_field->DeclaringType) base = base->BaseType
RECURSIVE FieldBase(_, _)
FieldBase(base, declaring) ==
    IF base = NULL \/ base = declaring THEN base
    ELSE FieldBase(BaseType(base), declaring)

\* the move that extends a field smaller than an int32
LdfldInsn(field_type) ==
    IF field_type = tSystem_SByte \/ field_type = tSystem_Boolean THEN "EXT8"
    ELSE IF field_type = tSystem_Byte THEN "UEXT8"
    ELSE IF field_type = tSystem_Int16 THEN "EXT16"
    ELSE IF field_type = tSystem_UInt16 \/ field_type = tSystem_Char THEN "UEXT16"
    ELSE IF field_type = tSystem_Single THEN "FMOV"
    ELSE "MOV"

\* case CEE_LDFLD: switch (type_get_stack_type(field_type))
LdfldLoad(c, operand_field, field_type, value_reg, obj_reg) ==
    IF type_get_stack_type(field_type) = STACK_TYPE_REF THEN CHECK_FAIL(c)
    ELSE IF type_get_stack_type(field_type) = STACK_TYPE_VALUE_TYPE
            \/ (type_get_stack_type(field_type) = STACK_TYPE_O
                  /\ type_is_interface(field_type))
    THEN With(Emit(c, Insn("ADD", << RegOp(obj_reg),
                                     IntOp(operand_field.MemoryOffset) >>), ""), LAMBDA c1 :
         Emit(c1, Insn("MEMCPY", << RegOp(value_reg), RegOp(obj_reg) >>), "field"))
    ELSE Emit(c, Insn(LdfldInsn(field_type),
                      << RegOp(value_reg),
                         MemAt(obj_reg, operand_field.MemoryOffset) >>), "field")

\* case CEE_LDFLD
CEE_LDFLD(c, operand_field) ==
    CHECK_AND_RETHROW(stack_pop(c), LAMBDA c1 :
    With(c1.out.type, LAMBDA obj_type :
    With(c1.out.reg, LAMBDA obj_reg :
    IF type_get_stack_type(obj_type) = STACK_TYPE_REF
          /\ type_get_stack_type(BaseType(obj_type)) # STACK_TYPE_VALUE_TYPE
    THEN CHECK_FAIL(c1)
    ELSE IF type_get_stack_type(obj_type)
               \notin { STACK_TYPE_REF, STACK_TYPE_O, STACK_TYPE_VALUE_TYPE }
    THEN CHECK_FAIL(c1)
    ELSE IF FieldBase(obj_type, operand_field.DeclaringType) = NULL THEN CHECK_FAIL(c1)
    ELSE IF field_is_static(operand_field) THEN CHECK_FAIL(c1)
    ELSE IF ~type_is_compatible_with(obj_type, operand_field.DeclaringType)
    THEN CHECK_FAIL(c1)
    ELSE
    With(type_get_intermediate_type(operand_field.FieldType), LAMBDA field_stack_type :
    With(type_get_underlying_type(operand_field.FieldType), LAMBDA field_type :
    CHECK_AND_RETHROW(stack_push(c1, field_stack_type), LAMBDA c2 :
    With(Top(c2).reg, LAMBDA value_reg :
    CHECK_AND_RETHROW(IF type_get_stack_type(obj_type) = STACK_TYPE_O
                      THEN jit_null_check(c2, obj_reg, obj_type)
                      ELSE c2, LAMBDA c3 :
    LdfldLoad(c3, operand_field, field_type, value_reg, obj_reg)))))))))

JitLdfld == Decode({ "ldfld" }, CEE_LDFLD(Ctx, FieldNamed(CurIns.type)))

\* ldarg.0; ldfld F; ret on a receiver of static type R
LdfldMethod(R, F) ==
    Method("Ldfld", << Ins("ldarg", 0, NULL), Ins("ldfld", 0, F.Name),
                       Ins("ret", 0, NULL) >>,
           << R >>, type_get_intermediate_type(F.FieldType), 1, << >>)

\* ldnull; ldfld F; ret
LdnullLdfldMethod(F) ==
    Method("LdnullLdfld", << Ins("ldnull", 0, NULL), Ins("ldfld", 0, F.Name),
                             Ins("ret", 0, NULL) >>,
           << >>, type_get_intermediate_type(F.FieldType), 1, << >>)

FieldMethods ==
    { LdfldMethod(R, F) : R \in { tSystem_Object, tFoo, tBar }, F \in FieldInfos }
        \cup { LdnullLdfldMethod(F) : F \in FieldInfos }

\* tSystem_Array->ManagedSize: the header of an array, before its first element
ArrayManagedSize == 16

\* type->StackSize
StackSize(T) ==
    IF type_is_object_ref(T) /\ ~type_is_interface(T) THEN PointerSize
    ELSE IF type_is_interface(T) THEN 2 * PointerSize
    ELSE IF T \in { tSystem_Int64, tSystem_UInt64, tSystem_IntPtr, tSystem_UIntPtr,
                    tSystem_Double } THEN 8
    ELSE IF T \in { tSystem_Int16, tSystem_UInt16, tSystem_Char } THEN 2
    ELSE IF T \in { tSystem_SByte, tSystem_Byte, tSystem_Boolean } THEN 1
    ELSE 4

\* MIR_new_mem_op(ctx, type, tSystem_Array->ManagedSize, array_reg, index_reg, scale)
ElemOp(base, index, scale) ==
    [k |-> "elem", v |-> base, n |-> "", d |-> ArrayManagedSize, i |-> index, s |-> scale]

\* jit_number_cast_inscode
jit_number_cast_inscode(srctype, desttype) ==
    IF srctype = tSystem_Single /\ desttype = tSystem_Double THEN "F2D"
    ELSE IF srctype = tSystem_Single /\ desttype = tSystem_Single THEN "FMOV"
    ELSE IF srctype = tSystem_Double /\ desttype = tSystem_Single THEN "D2F"
    ELSE IF srctype = tSystem_Double /\ desttype = tSystem_Double THEN "DMOV"
    ELSE "MOV"

\* jit_oob_check
jit_oob_check(c, array_reg, index_reg) ==
    With(NewLabel(c), LAMBDA c1 :
    With(Emit(c1, Insn("UBLT", << LabelOp(c1.out), RegOp(index_reg),
                                  MemOp(array_reg, "Length") >>), "oob.check"), LAMBDA c2 :
    CHECK_AND_RETHROW(jit_throw_new(c2, tSystem_IndexOutOfRangeException), LAMBDA c3 :
    Emit(c3, Insn("LABEL", << LabelOp(c1.out) >>), ""))))

\* cee_ldelem, cee_stelem, CEE_LDELEMA: "only int32 and intptr are allowed",
\* "check the object is not null", "check the array indexes"
ElementChecks(c, array_type, array_reg, index_type, index_reg) ==
    CHECK_AND_RETHROW(
        IF type_get_stack_type(index_type) = STACK_TYPE_INT32
        THEN Emit(c, Insn("EXT32", << RegOp(index_reg), RegOp(index_reg) >>), "")
        ELSE IF type_get_stack_type(index_type) = STACK_TYPE_INTPTR THEN c
        ELSE CHECK_FAIL(c), LAMBDA c1 :
    CHECK_AND_RETHROW(jit_null_check(c1, array_reg, array_type), LAMBDA c2 :
    jit_oob_check(c2, array_reg, index_reg)))

\* cee_ldelem: switch (type_get_stack_type(operand_type))
LdelemLoad(c, operand_type, value_reg, array_reg, index_reg) ==
    IF type_get_stack_type(operand_type) \in { STACK_TYPE_REF, STACK_TYPE_VALUE_TYPE }
          \/ type_is_interface(operand_type)
    THEN CHECK_FAIL(c)
    ELSE Emit(c, Insn(LdfldInsn(operand_type),
                      << RegOp(value_reg),
                         ElemOp(array_reg, index_reg, StackSize(operand_type)) >>),
              "element")

\* cee_ldelem (array_type->IsArray of the null type is not defined: the methods
\* translated here take their array from a parameter)
CEE_LDELEM(c, operand) ==
    CHECK_AND_RETHROW(stack_pop(c), LAMBDA c1 :
    With(c1.out, LAMBDA index :
    CHECK_AND_RETHROW(stack_pop(c1), LAMBDA c2 :
    With(c2.out, LAMBDA array :
    IF ~IsArray(array.type) THEN CHECK_FAIL(c2)
    ELSE IF operand # NULL
            /\ ~type_is_array_element_compatible_with(ElementType(array.type), operand)
    THEN CHECK_FAIL(c2)
    ELSE
    With(IF operand # NULL THEN operand ELSE ElementType(array.type), LAMBDA operand_type :
    CHECK_AND_RETHROW(ElementChecks(c2, array.type, array.reg, index.type, index.reg),
                      LAMBDA c3 :
    CHECK_AND_RETHROW(stack_push(c3, type_get_intermediate_type(operand_type)), LAMBDA c4 :
    LdelemLoad(c4, operand_type, Top(c4).reg, array.reg, index.reg))))))))

\* cee_stelem: switch (type_get_stack_type(value_type))
StelemStore(c, operand_type, value, array_reg, index_reg) ==
    IF type_get_stack_type(value.type) \in { STACK_TYPE_REF, STACK_TYPE_VALUE_TYPE }
    THEN CHECK_FAIL(c)
    ELSE IF type_get_stack_type(value.type) # STACK_TYPE_O
    THEN Emit(c, Insn(jit_number_cast_inscode(value.type, operand_type),
                      << ElemOp(array_reg, index_reg, StackSize(operand_type)),
                         RegOp(value.reg) >>), "element")
    ELSE IF type_is_interface(operand_type) /\ type_is_interface(value.type)
    THEN CHECK_FAIL(c)
    ELSE
    With(IF ~type_is_interface(operand_type) /\ type_is_interface(value.type)
         THEN Emit(c, Insn("MOV", << RegOp(value.reg),
                                     MemAt(value.reg, PointerSize) >>), "")
         ELSE c, LAMBDA c1 :
    With(Emit(c1, Insn("MUL", << RegOp(index_reg), RegOp(index_reg),
                                 IntOp(StackSize(operand_type)) >>), ""), LAMBDA c2 :
    With(Emit(c2, Insn("ADD", << RegOp(index_reg), RegOp(index_reg),
                                 IntOp(ArrayManagedSize) >>), ""), LAMBDA c3 :
    IF type_is_interface(operand_type)
    THEN IF ~type_has_interface_impl(value.type, operand_type) THEN CHECK_FAIL(c3)
         ELSE Emit(c3, Insn("CAST_OBJ_TO_INTERFACE",
                            << RegOp(index_reg), RegOp(value.reg), RegOp(array_reg) >>),
                   "element")
    ELSE Emit(c3, Insn("CALL", << RefOp("gc_update"), RegOp(array_reg),
                                  IntOp(index_reg), RegOp(value.reg) >>), "element"))))

\* cee_stelem
CEE_STELEM(c, operand) ==
    CHECK_AND_RETHROW(stack_pop(c), LAMBDA c1 :
    With(c1.out, LAMBDA value :
    CHECK_AND_RETHROW(stack_pop(c1), LAMBDA c2 :
    With(c2.out, LAMBDA index :
    CHECK_AND_RETHROW(stack_pop(c2), LAMBDA c3 :
    With(c3.out, LAMBDA array :
    IF ~IsArray(array.type) THEN CHECK_FAIL(c3)
    ELSE
    With(IF operand # NULL THEN operand ELSE ElementType(array.type), LAMBDA operand_type :
    IF ~type_is_array_element_compatible_with(
            value.type, type_get_intermediate_type(operand_type))
    THEN CHECK_FAIL(c3)
    ELSE IF ~type_is_array_element_compatible_with(operand_type, ElementType(array.type))
    THEN CHECK_FAIL(c3)
    ELSE
    CHECK_AND_RETHROW(ElementChecks(c3, array.type, array.reg, index.type, index.reg),
                      LAMBDA c4 :
    StelemStore(c4, operand_type, value, array.reg, index.reg)))))))))

\* case CEE_LDELEMA
CEE_LDELEMA(c, operand_type) ==
    CHECK_AND_RETHROW(stack_pop(c), LAMBDA c1 :
    With(c1.out, LAMBDA index :
    CHECK_AND_RETHROW(stack_pop(c1), LAMBDA c2 :
    With(c2.out, LAMBDA array :
    IF ~IsArray(array.type) THEN CHECK_FAIL(c2)
    ELSE IF ~type_is_array_element_compatible_with(ElementType(array.type), operand_type)
    THEN CHECK_FAIL(c2)
    ELSE
    CHECK_AND_RETHROW(ElementChecks(c2, array.type, array.reg, index.type, index.reg),
                      LAMBDA c3 :
    CHECK_AND_RETHROW(
        stack_push(c3, get_by_ref_type(type_get_intermediate_type(operand_type))),
        LAMBDA c4 :
    With(Top(c4).reg, LAMBDA value_reg :
    With(Emit(c4, Insn("MUL", << RegOp(value_reg), RegOp(index.reg),
                                 IntOp(StackSize(operand_type)) >>), ""), LAMBDA c5 :
    With(Emit(c5, Insn("ADD", << RegOp(value_reg), RegOp(value_reg),
                                 IntOp(ArrayManagedSize) >>), ""), LAMBDA c6 :
    Emit(c6, Insn("ADD", << RegOp(value_reg), RegOp(value_reg), RegOp(array.reg) >>),
         "element"))))))))))

JitLdelem == Decode({ "ldelem" }, CEE_LDELEM(Ctx, CurIns.type))

JitStelem == Decode({ "stelem" }, CEE_STELEM(Ctx, CurIns.type))

JitLdelema == Decode({ "ldelema" }, CEE_LDELEMA(Ctx, CurIns.type))

\* ldarg.0; ldarg.1; ldelem; ret on an array of type A and an index of type I
LdelemMethod(A, I, operand) ==
    Method("Ldelem", << Ins("ldarg", 0, NULL), Ins("ldarg", 1, NULL),
                        Ins("ldelem", 0, operand), Ins("ret", 0, NULL) >>,
           << A, I >>, type_get_intermediate_type(ElementType(A)), 2, << >>)

\* ldarg.0; ldarg.1; ldarg.2; stelem; ret
StelemMethod(A, I, operand) ==
    Method("Stelem", << Ins("ldarg", 0, NULL), Ins("ldarg", 1, NULL),
                        Ins("ldarg", 2, NULL), Ins("stelem", 0, operand),
                        Ins("ret", 0, NULL) >>,
           << A, I, ElementType(A) >>, NULL, 3, << >>)

\* ldarg.0; ldarg.1; ldelema T; pop; ret
LdelemaMethod(A, I) ==
    Method("Ldelema", << Ins("ldarg", 0, NULL), Ins("ldarg", 1, NULL),
                         Ins("ldelema", 0, ElementType(A)), Ins("pop", 0, NULL),
                         Ins("ret", 0, NULL) >>,
           << A, I >>, NULL, 2, << >>)

\* the arrays and indexes of the element accesses
ElementArrayTypes == { get_array_type(tSystem_Int32), get_array_type(tSystem_Object) }

ElementIndexTypes == { tSystem_Int32, tSystem_IntPtr }

ElementMethods ==
    UNION { { LdelemMethod(A, I, NULL), LdelemMethod(A, I, ElementType(A)),
              StelemMethod(A, I, NULL), StelemMethod(A, I, ElementType(A)),
              LdelemaMethod(A, I) } : A \in ElementArrayTypes, I \in ElementIndexTypes }

\* the MIR code of ceq, cgt, clt
CompareCode(op) ==
    IF op = "ceq" THEN "EQ" ELSE IF op = "cgt" THEN "GT" ELSE "LT"

\* jit_compare: switch (type_get_stack_type(value1_type)); out is the code
\* after code += 1 / += 2 / += 3
CompareTyped(c, code, v1, v2) ==
    With(type_get_stack_type(v1.type), LAMBDA t1 :
    With(type_get_stack_type(v2.type), LAMBDA t2 :
    IF t1 = STACK_TYPE_INT32
    THEN IF t2 = STACK_TYPE_INT32 THEN [c EXCEPT !.out = Code32(code)]
         ELSE IF t2 # STACK_TYPE_INTPTR THEN CHECK_FAIL(c)
         ELSE [Emit(c, Insn("UEXT32", << RegOp(v1.reg), RegOp(v1.reg) >>), "uext")
                  EXCEPT !.out = code]
    ELSE IF t1 = STACK_TYPE_INT64
    THEN IF t2 # STACK_TYPE_INT64 THEN CHECK_FAIL(c) ELSE [c EXCEPT !.out = code]
    ELSE IF t1 = STACK_TYPE_INTPTR
    THEN IF t2 = STACK_TYPE_INT32
         THEN [Emit(c, Insn("UEXT32", << RegOp(v2.reg), RegOp(v2.reg) >>), "uext")
                  EXCEPT !.out = code]
         ELSE IF t2 # STACK_TYPE_INTPTR THEN CHECK_FAIL(c)
         ELSE [c EXCEPT !.out = code]
    ELSE IF t1 = STACK_TYPE_FLOAT
    THEN IF v2.type \notin { tSystem_Double, tSystem_Single } THEN CHECK_FAIL(c)
         ELSE IF v1.type = tSystem_Single /\ v2.type = tSystem_Single
         THEN [c EXCEPT !.out = CodeF(code)]
         ELSE IF v1.type = tSystem_Single
         THEN With(new_reg(c, tSystem_Double), LAMBDA c1 :
              [Emit(c1, Insn("F2D", << RegOp(c1.out), RegOp(v1.reg) >>), "")
                  EXCEPT !.out = CodeD(code)])
         ELSE IF v1.type = tSystem_Double /\ v2.type = tSystem_Single
         THEN With(new_reg(c, tSystem_Double), LAMBDA c1 :
              [Emit(c1, Insn("F2D", << RegOp(c1.out), RegOp(v2.reg) >>), "")
                  EXCEPT !.out = CodeD(code)])
         ELSE IF v1.type = tSystem_Double THEN [c EXCEPT !.out = CodeD(code)]
         ELSE [c EXCEPT !.out = code]
    ELSE IF t1 = STACK_TYPE_O
    THEN IF t2 # STACK_TYPE_O \/ code # "EQ" THEN CHECK_FAIL(c)
         ELSE IF type_is_interface(v1.type) \/ type_is_interface(v2.type)
         THEN CHECK_FAIL(c)
         ELSE [c EXCEPT !.out = code]
    ELSE IF t1 = STACK_TYPE_REF
    THEN IF t2 # STACK_TYPE_REF THEN CHECK_FAIL(c) ELSE [c EXCEPT !.out = code]
    ELSE CHECK_FAIL(c)))

\* jit_compare
jit_compare(c, code) ==
    CHECK_AND_RETHROW(stack_pop(c), LAMBDA p2 :
    CHECK_AND_RETHROW(stack_pop(p2), LAMBDA p1 :
    CHECK_AND_RETHROW(stack_push(p1, tSystem_Int32), LAMBDA c1 :
    With(Top(c1).reg, LAMBDA result_reg :
    CHECK_AND_RETHROW(CompareTyped(c1, code, p1.out, p2.out), LAMBDA c2 :
    Emit(c2, Insn(c2.out, << RegOp(result_reg), RegOp(p1.out.reg), RegOp(p2.out.reg) >>),
         "compare"))))))

JitCompare == Decode({ "ceq", "cgt", "clt" }, jit_compare(Ctx, CompareCode(CurIns.op)))

\* ldarg.0; ldarg.1; add; ret
MixedAddMethod(T1, T2) ==
    Method("MixedAdd", << Ins("ldarg", 0, NULL), Ins("ldarg", 1, NULL),
                          Ins("add", 0, NULL), Ins("ret", 0, NULL) >>,
           << T1, T2 >>, tSystem_IntPtr, 2, << >>)

\* ldarg.0; ldarg.1; ceq / cgt / clt; ret
MixedCompareMethod(op, T1, T2) ==
    Method("MixedCompare", << Ins("ldarg", 0, NULL), Ins("ldarg", 1, NULL),
                              Ins(op, 0, NULL), Ins("ret", 0, NULL) >>,
           << T1, T2 >>, tSystem_Int32, 2, << >>)

\* ldarg.0; ldarg.1; beq.s equal; ldc.i4.0; ret; equal: ldc.i4.1; ret
MixedBranchMethod(T1, T2) ==
    Method("MixedBranch", << Ins("ldarg", 0, NULL), Ins("ldarg", 1, NULL),
                             Ins("beq.s", 6, NULL), Ins("ldc.i4", 0, NULL),
                             Ins("ret", 0, NULL), Ins("ldc.i4", 1, NULL),
                             Ins("ret", 0, NULL) >>,
           << T1, T2 >>, tSystem_Int32, 2, << >>)

\* the operand types of the mixed-width operations
MixedPairs == { << tSystem_Int32, tSystem_IntPtr >>, << tSystem_IntPtr, tSystem_Int32 >> }

MixedMethods ==
    UNION { { MixedAddMethod(P[1], P[2]), MixedBranchMethod(P[1], P[2]),
              MixedCompareMethod("ceq", P[1], P[2]), MixedCompareMethod("cgt", P[1], P[2]),
              MixedCompareMethod("clt", P[1], P[2]) } : P \in MixedPairs }

\* ldarg.0; ldarg.1; op; ret on operands of types T1 and T2
FloatOpMethod(op, T1, T2) ==
    Method("FloatOp", << Ins("ldarg", 0, NULL), Ins("ldarg", 1, NULL),
                         Ins(op, 0, NULL), Ins("ret", 0, NULL) >>,
           << T1, T2 >>,
           IF tSystem_Double \in { T1, T2 } THEN tSystem_Double ELSE tSystem_Single,
           2, << >>)

FloatTypes == { tSystem_Single, tSystem_Double }

\* the operand types of the operations on floats
FloatOperandTypes == FloatTypes \cup { tSystem_Int32, tSystem_Int64, tSystem_IntPtr }

FloatOpMethods ==
    { FloatOpMethod(op, T1, T2) :
        op \in ArithOps \cup BitwiseOps,
        T1 \in FloatOperandTypes, T2 \in FloatOperandTypes }

\* ret, in a body with the InitLocals bit and the local variables given
LocalsMethod(init, locals) ==
    [Method("Locals", << Ins("ret", 0, NULL) >>, << >>, NULL, 1, << >>)
        EXCEPT !.InitLocals = init, !.LocalVariables = locals]

LocalLists ==
    { << >>, << tSystem_Int32 >>, << tSystem_Object, tSystem_Double >>,
      << tMyStruct, tSystem_Single >> }

LocalsMethods == { LocalsMethod(init, locals) : init \in BOOLEAN, locals \in LocalLists }

-----------------------------------------------------------------------------
(***************************************************************************)
(* Local variables (jit.c, "Variables").  The prologue makes one register  *)
(* per local before any other register of the function, and nothing later  *)
(* replaces an entry of the locals array.                                  *)
(***************************************************************************)

\* the locals array jit_method fills in its prologue: arrpush(locals,
\* MIR_new_reg_op(reg)) for local i, reg being the i-th register made
locals(c) == [i \in 1..Len(c.method.LocalVariables) |-> RegOp(i)]

\* MIR_op_t.mode of an entry of the locals array
LocalMode(op) == IF op.k = "reg" THEN "MIR_OP_REG" ELSE "MIR_OP_MEM"

\* case CEE_STLOC: switch (type_get_stack_type(value_type))
StlocStore(c, value, variable_type, local) ==
    LET st == type_get_stack_type(value.type)
        copy == IF LocalMode(local) # "MIR_OP_REG" THEN CHECK_FAIL(c)
                ELSE Emit(c, Insn("MEMCPY", << local, RegOp(value.reg) >>), "local")
    IN  IF st = STACK_TYPE_VALUE_TYPE THEN copy
        ELSE IF st = STACK_TYPE_O /\ type_is_interface(variable_type)
        THEN IF type_is_interface(value.type) THEN copy
             ELSE IF LocalMode(local) # "MIR_OP_REG" THEN CHECK_FAIL(c)
             ELSE IF ~type_has_interface_impl(value.type, variable_type) THEN CHECK_FAIL(c)
             ELSE Emit(c, Insn("CAST_OBJ_TO_INTERFACE", << local, RegOp(value.reg) >>),
                       "local")
        ELSE IF st = STACK_TYPE_O /\ type_is_interface(value.type)
        THEN Emit(c, Insn("MOV", << local, MemAt(value.reg, PointerSize) >>), "local")
        ELSE Emit(c, Insn(jit_number_cast_inscode(value.type, variable_type),
                          << local, RegOp(value.reg) >>), "local")

\* case CEE_STLOC_0 .. CEE_STLOC
CEE_STLOC(c, operand_i32) ==
    CHECK_AND_RETHROW(stack_pop(c), LAMBDA c1 :
    With(c1.out, LAMBDA value :
    IF ~(operand_i32 < Len(c.method.LocalVariables)) THEN CHECK_FAIL(c1)
    ELSE
    With(type_get_intermediate_type(c.method.LocalVariables[operand_i32 + 1]),
         LAMBDA variable_type :
    IF ~type_is_verifier_assignable_to(value.type, variable_type) THEN CHECK_FAIL(c1)
    ELSE StlocStore(c1, value, variable_type, locals(c1)[operand_i32 + 1]))))

\* case CEE_LDLOC_0 .. CEE_LDLOC
CEE_LDLOC(c, operand_i32) ==
    IF ~(operand_i32 < Len(c.method.LocalVariables)) THEN CHECK_FAIL(c)
    ELSE
    With(type_get_intermediate_type(c.method.LocalVariables[operand_i32 + 1]),
         LAMBDA value_type :
    With(locals(c)[operand_i32 + 1], LAMBDA local :
    CHECK_AND_RETHROW(stack_push(c, value_type), LAMBDA c1 :
        IF type_get_stack_type(value_type) = STACK_TYPE_VALUE_TYPE
           \/ (type_get_stack_type(value_type) = STACK_TYPE_O
                 /\ type_is_interface(value_type))
        THEN IF LocalMode(local) # "MIR_OP_REG" THEN CHECK_FAIL(c1)
             ELSE Emit(c1, Insn("MEMCPY", << RegOp(Top(c1).reg), local >>), "local")
        ELSE Emit(c1, Insn(jit_number_inscode(value_type),
                           << RegOp(Top(c1).reg), local >>), "local"))))

\* is the local addressed as a value (ldloca_value_type) and not as a scalar
\* (ldloca_primitive_type)
LocalIsBlock(LocalType) ==
    \/ type_get_stack_type(LocalType) = STACK_TYPE_VALUE_TYPE
    \/ (type_get_stack_type(LocalType) = STACK_TYPE_O /\ type_is_interface(LocalType))

\* case CEE_LDLOCA / CEE_LDLOCA_S, the by-ref type already in hand
CEE_LDLOCA(c, operand_i32, value_type) ==
    With(c.method.LocalVariables[operand_i32 + 1], LAMBDA LocalType :
    With(locals(c)[operand_i32 + 1], LAMBDA local :
    CHECK_AND_RETHROW(stack_push(c, value_type), LAMBDA c1 :
        IF LocalIsBlock(LocalType)
        THEN Emit(c1, Insn("MOV", << RegOp(Top(c1).reg), local >>), "local")
        ELSE IF LocalMode(local) = "MIR_OP_REG"
        THEN CHECK_FAIL(c1)     \* "TODO: spill the value into the stack"
        ELSE Emit(c1, Insn("MOV", << RegOp(Top(c1).reg), RegOp(local.v) >>), "local"))))

\* type->IsByRef of a type of the assembly or of one get_by_ref_type has made
HasIsByRef(made, type) == IsByRef(type) \/ \E i \in 1..Len(made) : made[i].type = type

\* get_by_ref_type on the types made so far: the cached type->ByRefType is
\* returned, otherwise a new type is made, with BaseType = type, and cached
ByRefCache(made, type) ==
    IF get_by_ref_type(type) \in ByRefTypes
          \/ \E i \in 1..Len(made) : made[i].type = get_by_ref_type(type)
    THEN made
    ELSE Append(made, [type |-> get_by_ref_type(type), BaseType |-> type])

JitLdloc == Decode({ "ldloc" }, CEE_LDLOC(Ctx, CurIns.arg))

JitStloc == Decode({ "stloc" }, CEE_STLOC(Ctx, CurIns.arg))

\* ldloca: get_by_ref_type(type_get_verification_type(LocalType)) comes before
\* the push.  Its ASSERT(!type->IsByRef) traps in a debug build and is empty
\* in a release build.
JitLdloca ==
    /\ pc = "opcode"
    /\ CurIns.op = "ldloca"
    /\ il_ptr' = NextPtr
    /\ last_cf' = control_flow(CurIns.op)
    /\ IF ~(CurIns.arg < Len(method.LocalVariables))
       THEN /\ SetCtx(CHECK_FAIL(Ctx))
            /\ pc' = "failed"
            /\ UNCHANGED shared
       ELSE \E referent \in { type_get_verification_type(
                                  method.LocalVariables[CurIns.arg + 1]) },
               debug \in BOOLEAN :
            IF debug /\ HasIsByRef(shared, referent)
                     /\ ByRefCache(shared, referent) # shared
            THEN /\ pc' = "trapped"
                 /\ UNCHANGED << shared, stack, pc_to_stack_snapshot, clause_to_label,
                                 name_gen, label_gen, mir, err >>
            ELSE /\ shared' = ByRefCache(shared, referent)
                 /\ \E d \in { CEE_LDLOCA(Ctx, CurIns.arg, get_by_ref_type(referent)) } :
                       /\ SetCtx(d)
                       /\ pc' = IF Ok(d) THEN "head" ELSE "failed"
    /\ UNCHANGED << method, il_offset >>
    /\ RunIdle /\ UNCHANGED << ty, rel, threads, assembly >>

\* ldloca 0; pop; ret with one local of type L
LdlocaMethod(L) ==
    [Method("Ldloca", << Ins("ldloca", 0, NULL), Ins("pop", 0, NULL), Ins("ret", 0, NULL) >>,
            << >>, NULL, 1, << >>)
        EXCEPT !.LocalVariables = << L >>]

\* ldarg.0; stloc.0; ldloc.0; ret with a parameter of type P and a local of type L
StlocLdlocMethod(P, L) ==
    [Method("StlocLdloc", << Ins("ldarg", 0, NULL), Ins("stloc", 0, NULL),
                             Ins("ldloc", 0, NULL), Ins("ret", 0, NULL) >>,
            << P >>, type_get_intermediate_type(L), 1, << >>)
        EXCEPT !.LocalVariables = << L >>]

\* ldarg.0; stloc.0; ldloca 0; pop; ldloc.0; ret
StlocLdlocaMethod(P, L) ==
    [Method("StlocLdloca", << Ins("ldarg", 0, NULL), Ins("stloc", 0, NULL),
                              Ins("ldloca", 0, NULL), Ins("pop", 0, NULL),
                              Ins("ldloc", 0, NULL), Ins("ret", 0, NULL) >>,
            << P >>, type_get_intermediate_type(L), 1, << >>)
        EXCEPT !.LocalVariables = << L >>]

\* the declared types of the locals whose address is taken
AddressedLocalTypes ==
    { tSystem_Int32, tSystem_Object, tMyStruct, tIFoo, get_by_ref_type(tSystem_Int32) }

LocalAccessMethods ==
    { LdlocaMethod(L) : L \in AddressedLocalTypes }
        \cup { StlocLdlocMethod(tSystem_Int32, tSystem_Int32),
               StlocLdlocMethod(tBar, tSystem_Object),
               StlocLdlocMethod(tMyStruct, tMyStruct),
               StlocLdlocaMethod(tSystem_Int32, tSystem_Int32),
               StlocLdlocaMethod(tMyStruct, tMyStruct) }

\* try { throw arg0 } catch (C) { return 7 } with arg0 declared as S
ThrowArgMethod(S, C) ==
    With(<< Ins("ldarg", 0, NULL), Ins("throw", 0, NULL),
            Ins("pop", 0, NULL), Ins("ldc.i4", 7, NULL), Ins("ret", 0, NULL) >>,
         LAMBDA prog :
        Method("ThrowArg", prog, << S >>, tSystem_Int32, 2,
               << Clause(prog, COR_ILEXCEPTION_CLAUSE_EXCEPTION, 1, 3, 3, 6, C) >>))

ThrowArgMethods == { ThrowArgMethod(S, C) : S \in ThrowTypes, C \in ThrowTypes }

\* try { if (arg0 == arg1) leave B; leave A } finally { } A: return 1; B: return 2
TwoLeavesMethod ==
    With(<< Ins("ldarg", 0, NULL), Ins("ldarg", 1, NULL), Ins("beq.s", 5, NULL),
            Ins("leave.s", 7, NULL), Ins("leave.s", 9, NULL),
            Ins("endfinally", 0, NULL),
            Ins("ldc.i4", 1, NULL), Ins("ret", 0, NULL),
            Ins("ldc.i4", 2, NULL), Ins("ret", 0, NULL) >>,
         LAMBDA prog :
        Method("TwoLeaves", prog, << tSystem_Int32, tSystem_Int32 >>, tSystem_Int32, 2,
               << Clause(prog, COR_ILEXCEPTION_CLAUSE_FINALLY, 1, 6, 6, 7, NULL) >>))

\* try { leave A } finally { } A: return 1
OneLeaveMethod ==
    With(<< Ins("leave.s", 3, NULL), Ins("endfinally", 0, NULL),
            Ins("ldc.i4", 1, NULL), Ins("ret", 0, NULL) >>,
         LAMBDA prog :
        Method("OneLeave", prog, << >>, tSystem_Int32, 2,
               << Clause(prog, COR_ILEXCEPTION_CLAUSE_FINALLY, 1, 2, 2, 3, NULL) >>))

\* try { throw arg0 } finally { }: no leave for the clause
ThrowInFinallyMethod ==
    With(<< Ins("ldarg", 0, NULL), Ins("throw", 0, NULL), Ins("endfinally", 0, NULL) >>,
         LAMBDA prog :
        Method("ThrowInFinally", prog, << tSystem_Exception >>, NULL, 2,
               << Clause(prog, COR_ILEXCEPTION_CLAUSE_FINALLY, 1, 3, 3, 4, NULL) >>))

\* try { if (arg0 == arg1) throw arg2; leave A } finally { } A: ret
ThrowOrLeaveMethod ==
    With(<< Ins("ldarg", 0, NULL), Ins("ldarg", 1, NULL), Ins("beq.s", 5, NULL),
            Ins("leave.s", 8, NULL), Ins("ldarg", 2, NULL), Ins("throw", 0, NULL),
            Ins("endfinally", 0, NULL), Ins("ret", 0, NULL) >>,
         LAMBDA prog :
        Method("ThrowOrLeave", prog, << tSystem_Int32, tSystem_Int32, tSystem_Exception >>,
               NULL, 2,
               << Clause(prog, COR_ILEXCEPTION_CLAUSE_FINALLY, 1, 7, 7, 8, NULL) >>))

FinallyMethods ==
    { TwoLeavesMethod, OneLeaveMethod, ThrowInFinallyMethod, ThrowOrLeaveMethod }

\* try { } catch (Exception) { } ret, in a body whose MaxStackSize is max_stack
EmptyCatchMethod(max_stack) ==
    With(<< Ins("leave.s", 4, NULL), Ins("pop", 0, NULL), Ins("leave.s", 4, NULL),
            Ins("ret", 0, NULL) >>,
         LAMBDA prog :
        Method("EmptyCatch", prog, << >>, NULL, max_stack,
               << Clause(prog, COR_ILEXCEPTION_CLAUSE_EXCEPTION, 1, 2, 2, 4,
                         tSystem_Exception) >>))

\* pop; ret: a pop with nothing on the stack
PopEmptyMethod ==
    Method("PopEmpty", << Ins("pop", 0, NULL), Ins("ret", 0, NULL) >>, << >>, NULL, 1, << >>)

\* ldarg.0; ldarg.0; pop; pop; ret in a body whose MaxStackSize is max_stack
PushTwiceMethod(max_stack) ==
    Method("PushTwice", << Ins("ldarg", 0, NULL), Ins("ldarg", 0, NULL), Ins("pop", 0, NULL),
                           Ins("pop", 0, NULL), Ins("ret", 0, NULL) >>,
           << tSystem_Int32 >>, NULL, max_stack, << >>)

StackDepths == { 0, 1, 2 }

StackMethods ==
    { EmptyCatchMethod(n) : n \in StackDepths }
        \cup { PushTwiceMethod(n) : n \in StackDepths } \cup { PopEmptyMethod }

\* br.s; br.s; ret at offsets 0, 2 and 4, the operand of the branch at offset
\* source being the byte given (the target is the offset behind the branch plus
\* the operand)
RawBranchMethod(source, operand) ==
    With(Method("RawBranch", << Ins("br.s", 2, NULL), Ins("br.s", 3, NULL),
                                Ins("ret", 0, NULL) >>, << >>, NULL, 1, << >>),
         LAMBDA m : [m EXCEPT !.Il[source].arg = operand])

\* the branches: to the next instruction, into the operand of the second
\* branch, behind the end of the IL, and back into the operand of the first
RawBranchMethods ==
    { RawBranchMethod(0, 0), RawBranchMethod(0, 1), RawBranchMethod(0, 4),
      RawBranchMethod(2, 0 - 3) }

OpMethods ==
    { CallvirtMethod(R, M) : R \in ReceiverTypes, M \in CalledMethods }
        \cup FieldMethods \cup ElementMethods \cup MixedMethods
        \cup { M \in FloatOpMethods : \E i \in 1..2 : M.Parameters[i] \in FloatTypes }
        \cup LocalsMethods \cup LocalAccessMethods \cup ThrowArgMethods
        \cup FinallyMethods \cup StackMethods \cup RawBranchMethods

OpsInit ==
    /\ pc = "prologue"
    /\ method \in OpMethods
    /\ il_ptr = 0
    /\ il_offset = 0
    /\ last_cf = OPCODE_CONTROL_FLOW_INVALID
    /\ stack = << >>
    /\ pc_to_stack_snapshot = << >>
    /\ clause_to_label = << >>
    /\ name_gen = 0
    /\ label_gen = 0
    /\ mir = << >>
    /\ err = NO_ERROR
    /\ mpc = 0
    /\ regs = << >>
    /\ heap = << >>
    /\ result = NoResult
    /\ trail = << >>
    /\ steps = 0
    /\ lengths = << >>
    /\ ty = << NULL, NULL, NULL >>
    /\ rel = << >>
    /\ threads = << >>
    /\ shared = << >>
    /\ assembly = AssemblyInit

\* the longest array handed to a method
MaxLength == 2

\* the integers handed to a method
OpsInts == { 0 - 1, 0, 1, 2 }

\* the types an object handed in for a parameter of type T can have
RuntimeTypes(T) ==
    IF T \in ExceptionTypes
    THEN { R \in ThrowTypes : R = T \/ type_is_compatible_with(R, T) }
    ELSE IF type_is_object_ref(T) /\ ~IsArray(T)
    THEN { R \in { tSystem_Object, tFoo, tBar } :
             ~type_is_interface(R) /\ (R = T \/ type_is_compatible_with(R, T)) }
    ELSE { T }

\* the values a caller may pass for parameter i of type T
ArgValues(i, T) ==
    IF type_is_interface(T) THEN { FatV(0, T), FatV(i, T) }
    ELSE IF type_is_object_ref(T) THEN { IntV(0), ObjV(i) }
    ELSE { IntV(n) : n \in OpsInts }

\* the call of the MIR function with objects of any runtime type and length
OpsBegin ==
    /\ pc = "translated"
    /\ assembly.linked
    /\ \E args \in [1..Len(method.Parameters) ->
                       UNION { ArgValues(i, method.Parameters[i]) :
                                 i \in 1..Len(method.Parameters) }],
          objects \in [1..Len(method.Parameters) ->
                          UNION { RuntimeTypes(method.Parameters[i]) :
                                    i \in 1..Len(method.Parameters) }],
          lens \in [1..Len(method.Parameters) -> 0..MaxLength],
          exc0 \in { IntV(0), Garbage } :
          /\ \A i \in 1..Len(method.Parameters) :
                /\ args[i] \in ArgValues(i, method.Parameters[i])
                /\ objects[i] \in RuntimeTypes(method.Parameters[i])
                /\ args[i].k \notin { "obj", "fat" } \/ args[i].v = 0
                      => objects[i] = method.Parameters[i]
                /\ ~(IsArray(method.Parameters[i]) /\ args[i].k = "obj") => lens[i] = 0
          /\ regs' = [r \in (0 - Len(method.Parameters))..name_gen |->
                        IF r = exception_reg THEN exc0
                        ELSE IF r < 0 THEN args[0 - r]
                        ELSE Uninit]
          /\ heap' = objects
          /\ lengths' = lens
    /\ mpc' = 1
    /\ pc' = "run"
    /\ UNCHANGED << result, trail, steps >>
    /\ JitIdle /\ TypesIdle

\* what is noted at the call of a managed method: the method named in the IL,
\* the type of the receiver, the vtable offset the function pointer came from
\* (-1: none, a direct call) and the method that pointer belongs to
CallEvent(func, this) ==
    [ e |-> "call", il |-> CurMir.il, type |-> TypeOfValue(this),
      exc |-> regs[exception_reg], method |-> CurMir.ops[1].n,
      off |-> IF func.k = "func" THEN func.v ELSE 0 - 1,
      callee |-> func.n ]

\* the call of a managed method, directly or through a register: it returns no
\* exception, or one it raised
RunCall ==
    /\ Running
    /\ CurMir.op = "CALL" /\ CurMir.tag = "call"
    /\ LET func == Val(CurMir.ops[2])
           this == Val(CurMir.ops[4])
       IN  IF this.k # "obj" \/ func.k \notin { "func", "ref" }
           THEN Crash /\ UNCHANGED << regs, heap, trail >>
           ELSE /\ Fall
                /\ trail' = Append(trail, CallEvent(func, this))
                /\ \/ /\ regs' = Write(CurMir.ops[3], IntV(0))
                      /\ heap' = heap
                   \/ /\ Len(heap) < Len(method.Parameters) + MaxAllocs
                      /\ heap' = Append(heap, tSystem_Exception)
                      /\ regs' = Write(CurMir.ops[3], ObjV(Len(heap) + 1))
    /\ UNCHANGED result
    /\ Stepped

\* the values a field of an object handed in can hold
FieldValues == { IntV(0), IntV(1) }

\* the read of a field: of an object it yields what the field holds, of
\* anything else it faults
RunLoadField ==
    /\ Running
    /\ CurMir.tag = "field"
    /\ LET this == regs[CurMir.ops[2].v]
       IN  IF this.k # "obj"
           THEN Crash /\ UNCHANGED regs
                      /\ trail' = Append(trail, Event("field", NULL))
           ELSE /\ Fall
                /\ \E val \in FieldValues : regs' = Write(CurMir.ops[1], val)
                /\ trail' = Append(trail, Event("field", TypeOfValue(this)))
    /\ UNCHANGED << heap, result >>
    /\ Stepped

\* the order of two register values read as unsigned 64-bit numbers: the
\* non-negative ones, then the zero-extended negative 32-bit ones, then the
\* negative ones
UnsignedRank(val) == IF val.k = "uext32" THEN 1 ELSE IF val.v < 0 THEN 2 ELSE 0

UnsignedLess(a, b) ==
    \/ UnsignedRank(a) < UnsignedRank(b)
    \/ UnsignedRank(a) = UnsignedRank(b) /\ a.v < b.v

\* MIR_UBLT of jit_oob_check
RunOobCheck ==
    /\ Running
    /\ CurMir.op = "UBLT"
    /\ LET a == Val(CurMir.ops[2])
           b == Val(CurMir.ops[3])
       IN  IF a.k \in { "int", "uext32" } /\ b.k = "int"
           THEN IF UnsignedLess(a, b) THEN Goto(CurMir.ops[1].v) ELSE Fall
           ELSE Crash
    /\ UNCHANGED << regs, heap, result, trail >>
    /\ Stepped

\* the array and the byte offset an element instruction goes to: of a memory
\* operand disp + index * scale, of gc_update its second argument, of the last
\* ADD of ldelema the offset added to the array
ElementAddress(insn) ==
    IF insn.ops[1].k = "elem" \/ (Len(insn.ops) >= 2 /\ insn.ops[2].k = "elem")
    THEN With(IF insn.ops[1].k = "elem" THEN insn.ops[1] ELSE insn.ops[2], LAMBDA m :
            [array |-> regs[m.v], off |-> m.d + regs[m.i].v * m.s])
    ELSE IF insn.op = "CALL"
    THEN [array |-> Val(insn.ops[2]), off |-> Val(insn.ops[3]).v]
    ELSE IF insn.op = "ADD"
    THEN [array |-> Val(insn.ops[3]), off |-> Val(insn.ops[2]).v]
    ELSE [array |-> Garbage, off |-> 0]

\* a load from, a store to or the address of an array element
RunElement ==
    /\ Running
    /\ CurMir.tag = "element"
    /\ LET addr == ElementAddress(CurMir)
       IN  /\ trail' = Append(trail, [ e |-> "element", il |-> CurMir.il,
                                       type |-> TypeOfValue(addr.array),
                                       exc |-> regs[exception_reg],
                                       array |-> addr.array, off |-> addr.off ])
           /\ IF addr.array.k # "obj" THEN Crash /\ UNCHANGED regs
              ELSE /\ Fall
                   /\ IF CurMir.ops[1].k = "reg" /\ CurMir.op # "CAST_OBJ_TO_INTERFACE"
                      THEN \E val \in FieldValues : regs' = Write(CurMir.ops[1], val)
                      ELSE UNCHANGED regs
    /\ UNCHANGED << heap, result >>
    /\ Stepped

\* a < b for two register values read as signed 64-bit numbers: a zero-extended
\* negative 32-bit number is above every number of 32 bits
SignedLess(a, b) ==
    \/ a.k = "int" /\ b.k = "uext32"
    \/ a.k = b.k /\ a.v < b.v

\* MIR_EQ, MIR_GT, MIR_LT and their 32-bit variants
RunSet ==
    /\ Running
    /\ CurMir.tag = "compare"
    /\ LET a == Val(CurMir.ops[2])
           b == Val(CurMir.ops[3])
       IN  IF a.k \in { "int", "uext32" } /\ b.k \in { "int", "uext32" }
           THEN regs' = Write(CurMir.ops[1],
                              IF CurMir.op \in { "EQ", "EQS" }
                              THEN IF a = b THEN IntV(1) ELSE IntV(0)
                              ELSE IF CurMir.op \in { "LT", "LTS" }
                              THEN IF SignedLess(a, b) THEN IntV(1) ELSE IntV(0)
                              ELSE IF SignedLess(b, a) THEN IntV(1) ELSE IntV(0))
           ELSE regs' = Write(CurMir.ops[1], Garbage)
    /\ Fall
    /\ UNCHANGED << heap, result, trail >>
    /\ Stepped

OpsNext ==
    \/ JitPrologue \/ JitHead \/ JitEnd \/ JitAssemblyRethrow \/ JitAssemblyFinish
    \/ JitLdarg \/ JitLdnull \/ JitCallvirt \/ JitLdfld \/ JitRet
    \/ JitLdelem \/ JitStelem \/ JitLdelema \/ JitPop
    \/ JitLdloc \/ JitStloc \/ JitLdloca \/ JitThrow \/ JitLeave \/ JitEndfinally
    \/ JitBr
    \/ JitArith \/ JitCompare \/ JitCompareBranch \/ JitLdcI4
    \/ OpsBegin \/ RunLabel \/ RunMove \/ RunLoadField \/ RunBranch \/ RunGcNew
    \/ RunCtor \/ RunCall \/ RunArith \/ RunOobCheck \/ RunElement \/ RunSet
    \/ RunCompare \/ RunJump
    \/ RunRet

SpecOps == OpsInit /\ [][OpsNext]_vars

\* interface_offset of the claim: the offset the receiver's type gives the
\* method's declaring interface, 0 for a method of a class
ReceiverInterfaceOffset(type, operand_method) ==
    IF type_is_interface(operand_method.DeclaringType)
    THEN InterfaceVTableOffset(type, operand_method.DeclaringType)
    ELSE 0

\* C15: at every callvirt of a virtual method the function pointer is
\* read from the receiver's vtable at byte offset
\* header + (interface_offset + method_vtable_offset) * pointer_size, for object
\* receivers and for interface receivers
C15_VtableSlotOffset ==
    \A i \in 1..Len(trail) :
        trail[i].e = "call" =>
            With(MethodNamed(trail[i].method), LAMBDA operand_method :
                operand_method.IsVirtual =>
                    trail[i].off = VtableHeader
                        + (ReceiverInterfaceOffset(trail[i].type, operand_method)
                             + operand_method.VTableOffset) * PointerSize)

\* the method reads a non-static field
ReadsField ==
    /\ method.Name \in { "Ldfld", "LdnullLdfld" }
    /\ ~field_is_static(FieldNamed(method.Il[1].type))

\* the receiver of the field read is null: the literal null, or a null argument
NullReceiver ==
    \/ method.Name = "LdnullLdfld"
    \/ method.Name = "Ldfld" /\ pc \in { "run", "returned", "crashed" }
          /\ regs[0 - 1] = IntV(0)

\* C16: ldfld of a non-static field on a null receiver, the literal null
\* of ldnull included, is translated, and the emitted code returns
\* (NullReferenceException, 0) without reaching the read of the field (another
\* exception only when the allocation or the constructor of that one failed)
C16_NullReceiverThrows ==
    ReadsField /\ NullReceiver =>
        /\ pc \notin { "failed", "rejected" }
        /\ \A i \in 1..Len(trail) : trail[i].e # "field"
        /\ pc = "returned" =>
              /\ result.value = IntV(0)
              /\ result.exception.k = "obj"
              /\ TypeOfValue(result.exception) = tSystem_NullReferenceException
                    \/ \E i \in 1..Len(heap) : heap[i] # tSystem_NullReferenceException
                                               /\ i > Len(method.Parameters)

\* the run of a method that accesses an element of its first argument at the
\* index of its second
ElementRun ==
    /\ method.Name \in { "Ldelem", "Stelem", "Ldelema" }
    /\ pc \in { "run", "returned", "crashed" }

ElementArray == regs[0 - 1]

ElementIndex == regs[0 - 2].v

\* the index is within the array handed in
ElementInRange ==
    /\ ElementArray.k = "obj"
    /\ ElementIndex >= 0
    /\ ElementIndex < lengths[ElementArray.v]

\* the function returned an exception of the type (another one only when the
\* allocation or the constructor of that one failed)
Raised(type) ==
    /\ result.exception.k = "obj"
    /\ result.value \in { NoValue, IntV(0) }
    /\ TypeOfValue(result.exception) = type
          \/ \E i \in 1..Len(heap) : i > Len(method.Parameters) /\ heap[i] # type

\* C17: ldelem, stelem and ldelema on an array of length n and an index
\* i of type Int32 or native int raise NullReferenceException when the array is
\* null, otherwise IndexOutOfRangeException exactly when i < 0 or i >= n, and
\* only an in-range index reaches the element, at base + header + i * elemSize
C17_ElementChecked ==
    ElementRun =>
        /\ \A p \in 1..Len(trail) :
              trail[p].e = "element" =>
                  /\ ElementInRange
                  /\ trail[p].array = ElementArray
                  /\ trail[p].off = ArrayManagedSize
                        + ElementIndex * StackSize(ElementType(method.Parameters[1]))
        /\ pc = "returned" =>
              IF ElementArray = IntV(0) THEN Raised(tSystem_NullReferenceException)
              ELSE IF ~ElementInRange THEN Raised(tSystem_IndexOutOfRangeException)
              ELSE /\ result.exception = IntV(0)
                   /\ \E p \in 1..Len(trail) : trail[p].e = "element"

\* the run of an operation on one Int32 and one native-int argument returned
MixedReturned ==
    /\ method.Name \in { "MixedAdd", "MixedCompare", "MixedBranch" }
    /\ pc = "returned"

\* the numbers handed in for value1 and value2
MixedValue1 == regs[0 - 1].v

MixedValue2 == regs[0 - 2].v

\* the result of the operation on the two numbers
MixedExpected ==
    IF method.Name = "MixedAdd" THEN MixedValue1 + MixedValue2
    ELSE IF method.Name = "MixedBranch" \/ method.Il[2].op = "ceq"
    THEN IF MixedValue1 = MixedValue2 THEN 1 ELSE 0
    ELSE IF method.Il[2].op = "clt"
    THEN IF MixedValue1 < MixedValue2 THEN 1 ELSE 0
    ELSE IF MixedValue1 > MixedValue2 THEN 1 ELSE 0

\* C18: in a binary numeric operation, a comparison and a
\* compare-and-branch of one Int32 and one IntPtr operand the Int32 operand is
\* sign-extended, so the operation is the one on the two numbers (Int32 -1 keeps
\* the value -1), and the result of the numeric operation has stack type IntPtr
C18_Int32SignExtended ==
    /\ method.Name \in { "MixedAdd", "MixedCompare", "MixedBranch" }
          => pc \notin { "failed", "rejected" }
    /\ method.Name = "MixedAdd" /\ il_offset = 3 /\ Len(stack) = 1
          => stack[1].type = tSystem_IntPtr
    /\ MixedReturned =>
          /\ result.exception = IntV(0)
          /\ result.value = IntV(MixedExpected)

\* the method applies one of the operations to a pair of operands of which one
\* has stack type Float
OnFloat(ops) ==
    /\ method.Name = "FloatOp"
    /\ method.Il[2].op \in ops
    /\ \E i \in 1..2 : type_get_stack_type(method.Parameters[i]) = STACK_TYPE_FLOAT

\* the translation did not get past the operation and emitted no arithmetic
\* instruction
RejectedAtOperation ==
    /\ il_offset <= 2
    /\ pc \notin { "translated", "run", "returned", "crashed" }
    /\ \A i \in 1..Len(mir) : mir[i].tag # "arith"

\* C19 as stated: and, or, xor, div.un, rem and rem.un fail verification
\* whenever an operand has stack type Float, and no arithmetic instruction is
\* emitted
C19_IntegerOnlyWithRem ==
    OnFloat({ "and", "or", "xor", "div.un", "rem", "rem.un" }) => RejectedAtOperation

\* C19: and, or, xor, div.un and rem.un fail verification whenever an
\* operand has stack type Float, and no arithmetic instruction is emitted; rem
\* is no integer-only operation: on two Float operands it is translated, as add
\* and div are
C19_IntegerOnlyRejectsFloat ==
    /\ OnFloat({ "and", "or", "xor", "div.un", "rem.un" }) => RejectedAtOperation
    /\ /\ OnFloat({ "rem", "add", "div" })
       /\ \A i \in 1..2 : type_get_stack_type(method.Parameters[i]) = STACK_TYPE_FLOAT
       => (pc \in { "failed", "rejected" } => il_offset # 2)

\* an integer-only operation on a Float operand has been rejected
C19_Witness ==
    /\ OnFloat({ "and", "or", "xor", "div.un", "rem.un" })
    /\ type_get_stack_type(method.Parameters[1]) = STACK_TYPE_FLOAT
    /\ pc = "rejected"
    /\ err = ERROR_CHECK_FAILED
    /\ il_offset = 2

\* a body whose InitLocals bit is clear
InitLocalsClear == method.Name = "Locals" /\ ~method.InitLocals

\* the translator rejected the method, or has not come to its locals yet
RejectedInPrologue ==
    /\ pc \in { "prologue", "failed", "rejected" }
    /\ pc # "prologue" => err = ERROR_CHECK_FAILED
    /\ mir = << >>

\* C20: every body whose InitLocals bit is clear is rejected with
\* check-failed, however many local variables it declares
C20_InitLocalsRequired ==
    InitLocalsClear => RejectedInPrologue

-----------------------------------------------------------------------------
(***************************************************************************)
(* Taking the address of a local.                                          *)
(***************************************************************************)

\* the translator stands behind a ldloca of a local in range that is kept in a
\* scalar register, with room on the stack for the by-ref
LdlocaOfScalar ==
    /\ pc \in { "head", "failed" }
    /\ il_offset \in DOMAIN method.Il
    /\ CurIns.op = "ldloca"
    /\ il_ptr = NextPtr
    /\ CurIns.arg < Len(method.LocalVariables)
    /\ ~LocalIsBlock(method.LocalVariables[CurIns.arg + 1])
    /\ LocalMode(locals(Ctx)[CurIns.arg + 1]) = "MIR_OP_REG"

\* C21: ldloca on a local that is currently realized as a scalar register is
\* accepted: translation goes on, with a by-ref to the local's type on top of
\* the stack and a move of the address of the local's slot into its register
C21_LdlocaOfScalarAccepted ==
    LdlocaOfScalar /\ ~IsByRef(method.LocalVariables[CurIns.arg + 1])
        => /\ pc = "head"
           /\ err = NO_ERROR
           /\ Len(stack) > 0
           /\ stack[Len(stack)].type
                 = get_by_ref_type(type_get_verification_type(
                       method.LocalVariables[CurIns.arg + 1]))
           /\ \E i \in 1..Len(mir) :
                 /\ mir[i].il = il_offset
                 /\ mir[i].op = "MOV"
                 /\ mir[i].ops[1] = RegOp(stack[Len(stack)].reg)

\* C23: no by-ref type that get_by_ref_type makes and caches has a by-ref as
\* its referent, whatever the build
C23_NoByRefOfByRef ==
    \A i \in 1..Len(shared) : ~HasIsByRef(shared, shared[i].BaseType)

-----------------------------------------------------------------------------
(***************************************************************************)
(* managed_memcpy / managed_ref_memcpy (jit.c).                            *)
(* Memory is kept in slots of PointerSize bytes, addressed by byte offset: *)
(* the layouts copied have their fields on slot boundaries.  Slot b of the *)
(* source struct holds SrcSlot(b), so a copy can be told from its source   *)
(* offset; the destination starts out holding OldSlot everywhere.          *)
(***************************************************************************)

\* a value type's StackSize and ManagedPointersOffsets (sorted byte offsets)
Layout(size, offsets) == [StackSize |-> size, ManagedPointersOffsets |-> offsets]

\* the struct types copied: no reference; one reference; a reference behind a
\* scalar; two references in a row; references around a scalar; a reference
\* in front of a long run of scalars
CopyLayouts ==
    { Layout(2 * PointerSize, << >>),
      Layout(PointerSize, << 0 >>),
      Layout(2 * PointerSize, << PointerSize >>),
      Layout(2 * PointerSize, << 0, PointerSize >>),
      Layout(3 * PointerSize, << 0, 2 * PointerSize >>),
      Layout(9 * PointerSize, << PointerSize >>) }

\* the byte offsets inside the destination the struct is copied to
CopyOffsets == { 2 * PointerSize, 3 * PointerSize }

CopyEntries == { "managed_memcpy", "managed_ref_memcpy" }

SrcSlot(b) == [k |-> "src", v |-> b]

OldSlot == [k |-> "old", v |-> 0]

\* what is read from outside the source struct
StraySlot == [k |-> "stray", v |-> 0]

\* memcpy(dest + to, from + at, len) on the destination's slots
Memcpy(memory, to, at, len) ==
    [s \in DOMAIN memory |->
        IF to <= (s - 1) * PointerSize /\ (s - 1) * PointerSize < to + len
        THEN SrcSlot(at + (s - 1) * PointerSize - to)
        ELSE memory[s]]

\* gc_update(this, offset, value): the barrier, then the store of the reference
GcUpdate(memory, offset, value) ==
    [memory EXCEPT ![offset \div PointerSize + 1] = value]

\* *((System_Object*)from + n): the cast binds before the sum, so from is
\* advanced by n elements of sizeof(System_Object) bytes each.  A read from
\* outside the source struct is a read of whatever lies there.
\* the read faults
NoSlot == [k |-> "fault", v |-> 0]

FromPlus(struct_type, n) ==
    IF n * PointerSize < struct_type.StackSize
    THEN { SrcSlot(n * PointerSize) }
    ELSE { StraySlot, NoSlot }

CopyInit ==
    /\ pc = "copy.entry"
    /\ \E struct_type \in CopyLayouts, offset \in CopyOffsets, entry \in CopyEntries,
          found \in BOOLEAN :
          /\ entry = "managed_memcpy" => found
          /\ threads = [ entry |-> entry, struct_type |-> struct_type,
                         found |-> found,      \* heap_find_fast(base) # NULL
                         offset |-> offset, i |-> 0, last_offset |-> 0,
                         current_offset |-> 0 ]
          /\ shared = [ memory |-> [s \in 1..((offset + struct_type.StackSize)
                                                \div PointerSize + 1) |-> OldSlot],
                        writes |-> << >> ]
    /\ NothingElse

\* a write noted: which function made it, where in the destination, how many
\* bytes, and from which byte offset of the source (value: what gc_update stores)
Wrote(by, to, len, at, value) ==
    [by |-> by, to |-> to, len |-> len, at |-> at, value |-> value]

\* managed_ref_memcpy: the owner is looked up; without one the struct is not
\* on the heap and is copied whole
ManagedRefMemcpy ==
    /\ pc = "copy.entry"
    /\ threads.entry = "managed_ref_memcpy"
    /\ IF threads.found
       THEN /\ pc' = "copy.loop"
            /\ UNCHANGED shared
       ELSE /\ pc' = "copy.done"
            /\ shared' =
                 [ memory |-> Memcpy(shared.memory, threads.offset, 0,
                                     threads.struct_type.StackSize),
                   writes |-> Append(shared.writes,
                                     Wrote("memcpy", threads.offset,
                                           threads.struct_type.StackSize, 0, OldSlot)) ]
    /\ UNCHANGED threads
    /\ ElseIdle

\* managed_memcpy up to its loop
ManagedMemcpy ==
    /\ pc = "copy.entry"
    /\ threads.entry = "managed_memcpy"
    /\ pc' = "copy.loop"
    /\ threads' = [threads EXCEPT !.last_offset = 0, !.i = 0]
    /\ UNCHANGED shared
    /\ ElseIdle

\* the loop body up to the barrier: the unmanaged bytes in front of the
\* reference, when there are any
ManagedMemcpyGap ==
    /\ pc = "copy.loop"
    /\ threads.i < Len(threads.struct_type.ManagedPointersOffsets)
    /\ \E current_offset \in { threads.struct_type.ManagedPointersOffsets[threads.i + 1] } :
          /\ threads' = [threads EXCEPT !.current_offset = current_offset]
          /\ IF threads.last_offset # current_offset
             THEN shared' =
                    [ memory |-> Memcpy(shared.memory, threads.offset + threads.last_offset,
                                        threads.last_offset,
                                        current_offset - threads.last_offset),
                      writes |-> Append(shared.writes,
                                        Wrote("memcpy", threads.offset + threads.last_offset,
                                              current_offset - threads.last_offset,
                                              threads.last_offset, OldSlot)) ]
             ELSE UNCHANGED shared
    /\ pc' = "copy.barrier"
    /\ ElseIdle

\* the rest of the loop body: gc_update of the reference and last_offset
ManagedMemcpyUpdate ==
    /\ pc = "copy.barrier"
    /\ \E value \in FromPlus(threads.struct_type, threads.current_offset) :
          IF value = NoSlot
          THEN /\ pc' = "copy.fault"
               /\ UNCHANGED << shared, threads >>
          ELSE /\ shared' =
                    [ memory |-> GcUpdate(shared.memory,
                                          threads.offset + threads.current_offset, value),
                      writes |-> Append(shared.writes,
                                        Wrote("gc_update",
                                              threads.offset + threads.current_offset,
                                              PointerSize, threads.current_offset, value)) ]
               /\ threads' = [threads EXCEPT !.last_offset = threads.current_offset,
                                             !.i = @ + 1]
               /\ pc' = "copy.loop"
    /\ ElseIdle

\* behind the loop: the bytes left at the end
ManagedMemcpyTail ==
    /\ pc = "copy.loop"
    /\ threads.i >= Len(threads.struct_type.ManagedPointersOffsets)
    /\ IF threads.last_offset # threads.struct_type.StackSize
       THEN shared' =
              [ memory |-> Memcpy(shared.memory, threads.offset + threads.last_offset,
                                  threads.last_offset,
                                  threads.struct_type.StackSize - threads.last_offset),
                writes |-> Append(shared.writes,
                                  Wrote("memcpy", threads.offset + threads.last_offset,
                                        threads.struct_type.StackSize - threads.last_offset,
                                        threads.last_offset, OldSlot)) ]
       ELSE UNCHANGED shared
    /\ pc' = "copy.done"
    /\ UNCHANGED threads
    /\ ElseIdle

CopyNext ==
    \/ ManagedRefMemcpy \/ ManagedMemcpy \/ ManagedMemcpyGap \/ ManagedMemcpyUpdate
    \/ ManagedMemcpyTail

SpecCopy == CopyInit /\ [][CopyNext]_vars

\* the byte offsets of the struct's slots and of those holding a reference
StructSlots(struct_type) ==
    { b \in 0..(struct_type.StackSize - 1) : b % PointerSize = 0 }

PointerSlots(struct_type) ==
    { struct_type.ManagedPointersOffsets[i] :
        i \in 1..Len(struct_type.ManagedPointersOffsets) }

\* the destination holds the source struct at the offset and nothing else changed
CopiedWhole ==
    \A s \in DOMAIN shared.memory :
        LET b == (s - 1) * PointerSize - threads.offset
        IN  shared.memory[s] = IF b \in StructSlots(threads.struct_type)
                               THEN SrcSlot(b) ELSE OldSlot

\* the write covers the slot at byte offset b of the struct
Covers(w, b) == w.to <= threads.offset + b /\ threads.offset + b < w.to + w.len

\* a copy through managed_memcpy has returned
ManagedCopyDone == pc = "copy.done" /\ threads.found

\* C22: managed_memcpy(obj, T, off, src) leaves obj[off .. off + T.StackSize)
\* equal to src[0 .. T.StackSize); every slot in T.ManagedPointersOffsets is
\* written through gc_update only, with the reference at the same byte offset
\* of src, and memcpy writes exactly the other slots
C22_ManagedMemcpyBarriers ==
    ManagedCopyDone
        => /\ CopiedWhole
           /\ \A b \in StructSlots(threads.struct_type) :
                 \A n \in 1..Len(shared.writes) :
                    Covers(shared.writes[n], b)
                        => IF b \in PointerSlots(threads.struct_type)
                           THEN /\ shared.writes[n].by = "gc_update"
                                /\ shared.writes[n].value = SrcSlot(b)
                           ELSE shared.writes[n].by = "memcpy"
           /\ \A b \in StructSlots(threads.struct_type) :
                 \E n \in 1..Len(shared.writes) : Covers(shared.writes[n], b)

-----------------------------------------------------------------------------
(***************************************************************************)
(* Registers of the stack slots where control flow joins.                  *)
(***************************************************************************)

\* the function holds a move from register source into register target
MoveEmitted(target, source) ==
    \E n \in 1..Len(mir) :
        /\ mir[n].op \in { "MOV", "FMOV", "DMOV" }
        /\ mir[n].ops = << RegOp(target), RegOp(source) >>

\* the translator stands at an offset it has a snapshot for, the stack it goes
\* on with being non-empty
AtJoin ==
    /\ pc = "opcode"
    /\ il_offset \in DOMAIN pc_to_stack_snapshot
    /\ Len(stack) > 0
    /\ Len(pc_to_stack_snapshot[il_offset].stack) = Len(stack)

\* C24: at every join point with a non-empty stack, each slot has the same
\* register in the stack recorded for the incoming edges and in the stack the
\* code behind the join is translated with, or a move between the two is emitted
C24_JoinSlotsShareRegisters ==
    AtJoin
        => \A i \in 1..Len(stack) :
              \/ stack[i].reg = pc_to_stack_snapshot[il_offset].stack[i].reg
              \/ MoveEmitted(stack[i].reg, pc_to_stack_snapshot[il_offset].stack[i].reg)

-----------------------------------------------------------------------------
(***************************************************************************)
(* The catch a thrown object is delivered to.                              *)
(***************************************************************************)

\* event p is a throw, inside a try range, of an object whose run-time type is
\* the type of an enclosing catch clause or derives from it, and the run has
\* gone on from there
ThrownIntoCatch(p) ==
    /\ trail[p].e = "throw"
    /\ p < Len(trail)
    /\ EnclosingFinallies(trail[p].il) = { }
    /\ MatchingCatches(trail[p].il, trail[p].type) # { }

\* C25: an exception object whose run-time type derives from an enclosing
\* catch clause's type is delivered to that catch handler, whatever the static
\* type of the stack entry thrown
C25_RuntimeTypeSelectsCatch ==
    pc \in { "run", "returned", "crashed" } =>
        \A p \in 1..Len(trail) :
            ThrownIntoCatch(p)
                => /\ trail[p + 1].e = "il"
                   /\ \E i \in MatchingCatches(trail[p].il, trail[p].type) :
                         trail[p + 1].il = method.ExceptionHandlingClauses[i].HandlerOffset

-----------------------------------------------------------------------------
(***************************************************************************)
(* Leaves that share a finally clause.                                     *)
(***************************************************************************)

\* the offsets of the leaves of the method that finally clause i guards
LeavesGuardedBy(i) ==
    { o \in DOMAIN method.Il :
        /\ method.Il[o].op = "leave.s"
        /\ InTry(method.ExceptionHandlingClauses[i], o)
        /\ ~InTry(method.ExceptionHandlingClauses[i], LeaveTarget(o)) }

\* the leave at offset o shares a finally clause with a leave to another target
SharesFinally(o) ==
    \E i \in EnclosingFinallies(o) :
        /\ o \in LeavesGuardedBy(i)
        /\ \E other \in LeavesGuardedBy(i) : LeaveTarget(other) # LeaveTarget(o)

\* C26: when leaves with different targets are guarded by one finally clause,
\* the path from each leave runs the finally handler and the first offset it
\* passes behind the handler is that leave's own target, no exception being
\* pending at the leave (a method whose translation failed has no run)
C26_EachLeaveReachesItsTarget ==
    pc \in { "run", "returned", "crashed" } =>
        \A p \in 1..Len(trail) :
            IsLeave(trail[p]) /\ SharesFinally(trail[p].il) /\ trail[p].exc = IntV(0) =>
                LET q == FirstOutside(p, EnclosingFinallies(trail[p].il))
                IN  q # 0 => /\ trail[q].e = "il"
                             /\ trail[q].il = LeaveTarget(trail[p].il)
                             /\ q > p + 1

-----------------------------------------------------------------------------
(***************************************************************************)
(* A finally clause whose try body is left by exceptions only.             *)
(***************************************************************************)

\* the finally clauses of the method no leave has its try range around
FinalliesWithoutLeave ==
    { i \in 1..Len(method.ExceptionHandlingClauses) :
        /\ method.ExceptionHandlingClauses[i].Flags = COR_ILEXCEPTION_CLAUSE_FINALLY
        /\ \A o \in DOMAIN method.Il :
              method.Il[o].op = "leave.s" => ~InTry(method.ExceptionHandlingClauses[i], o) }

\* C27: a method with a try/finally whose try body holds no leave is translated,
\* and in a run a throw inside that try is followed by the finally handler and
\* then by the return of the thrown exception
C27_FinallyWithoutLeave ==
    FinalliesWithoutLeave # { } =>
        /\ pc # "failed"
        /\ pc \in { "run", "returned" } =>
              \A p \in 1..Len(trail) :
                  /\ trail[p].e = "throw"
                  /\ EnclosingFinallies(trail[p].il) \cap FinalliesWithoutLeave # { }
                  /\ FirstOutside(p, EnclosingFinallies(trail[p].il)) # 0
                  => /\ p < Len(trail)
                     /\ InHandlersOf(trail[p + 1], EnclosingFinallies(trail[p].il))
                     /\ trail[FirstOutside(p, EnclosingFinallies(trail[p].il))].e = "ret"

-----------------------------------------------------------------------------
(***************************************************************************)
(* The depth of the abstract stack.                                        *)
(***************************************************************************)

\* the translator is at work on the method
Translating == pc \in { "prologue", "head", "opcode", "failed", "translated" }

\* a step that decodes a pop with nothing on the stack
PopsEmpty == pc = "opcode" /\ CurIns.op = "pop" /\ stack = << >>

\* C28: while a method is translated the abstract stack never holds more than
\* MaxStackSize entries, the stack a catch handler is entered with included; and
\* a pop from the empty stack fails with check-failed and leaves the stack empty
C28_StackWithinMaxStack ==
    /\ [](Translating => Len(stack) <= method.MaxStackSize)
    /\ [][PopsEmpty => pc' = "failed" /\ err' = ERROR_CHECK_FAILED /\ stack' = << >>]_vars

-----------------------------------------------------------------------------
(***************************************************************************)
(* The labels the emitted branches refer to.                               *)
(***************************************************************************)

\* the places of the function the label is appended at
Appended(l) == { n \in 1..Len(mir) : mir[n].op = "LABEL" /\ mir[n].ops[1].v = l }

\* the label operands of instruction n
LabelOperands(n) ==
    { mir[n].ops[k].v : k \in { j \in 1..Len(mir[n].ops) : mir[n].ops[j].k = "label" } }

\* C29: in a method whose translation succeeded every label that a branch,
\* switch, leave or jump to a handler refers to is appended to the function
\* exactly once, so that a branch to an offset where no instruction starts, or
\* behind the end of the IL, has made the translation fail
C29_LabelsAppendedOnce ==
    pc \in { "translated", "run", "returned", "crashed" } =>
        \A n \in 1..Len(mir) :
            mir[n].op # "LABEL" =>
                \A l \in LabelOperands(n) : Cardinality(Appended(l)) = 1

-----------------------------------------------------------------------------
(***************************************************************************)
(* expand_type / expand_field / expand_method (types.c): the members of    *)
(* the instance type_make_generic(G, A) makes.  A System_Type is kept as    *)
(* what it is (kind), its name, its GenericParameterPosition (pos) and the *)
(* types it is built of (the element of an array, the referent of a        *)
(* by-ref, the arguments of a generic instance).                           *)
(***************************************************************************)

NullType == [kind |-> "null", name |-> "", pos |-> 0 - 1, of |-> << >>]

\* a type the loader set up from a type definition: GenericParameterPosition < 0
LoadedType(name) == [kind |-> "type", name |-> name, pos |-> 0 - 1, of |-> << >>]

\* a generic definition of the loader
GenericDefinition(name) == [kind |-> "definition", name |-> name, pos |-> 0 - 1, of |-> << >>]

\* generic parameter number position of the definition
GenericParameter(position) ==
    [kind |-> "parameter", name |-> "!", pos |-> position, of |-> << >>]

\* the types made by GC_NEW(tSystem_Type) in get_array_type, get_by_ref_type
\* and expand_type: the object is zeroed and GenericParameterPosition is not
\* assigned
ArrayOf(T) == [kind |-> "array", name |-> "[]", pos |-> 0, of |-> << T >>]

ByRefOf(T) == [kind |-> "byref", name |-> "&", pos |-> 0, of |-> << T >>]

InstanceOf(name, arguments) == [kind |-> "instance", name |-> name, pos |-> 0, of |-> arguments]

\* type_is_generic_definition, on the types of the model
type_is_generic_definition(type) == type.kind = "definition"

\* expand_type without the bookkeeping of the instance chain: what it returns
expand_type(type, arguments) ==
    IF type = NullType THEN NullType
    ELSE IF type.pos >= 0 THEN arguments[type.pos + 1]
    ELSE IF ~type_is_generic_definition(type) THEN type
    ELSE InstanceOf(type.name, arguments)

\* the substitution image of a type: every generic parameter replaced by the
\* argument of its position, inside arrays, by-refs and instances too
RECURSIVE Substituted(_, _)
Substituted(type, arguments) ==
    IF type.kind = "parameter" THEN arguments[type.pos + 1]
    ELSE [type EXCEPT !.of = [k \in 1..Len(type.of) |-> Substituted(type.of[k], arguments)]]

\* is a generic parameter reachable from the type
RECURSIVE ReachesParameter(_)
ReachesParameter(type) ==
    \/ type.kind = "parameter"
    \/ \E k \in 1..Len(type.of) : ReachesParameter(type.of[k])

\* a System_Reflection_MethodInfo of the definition
GenericMethod(ret, params) == [ReturnType |-> ret, Parameters |-> params]

\* the generic definitions instantiated, each with two generic parameters:
\* class Pair<T, U> { T first; int count; U Get(T key); }
\* class Bag<T, U> : Base<T> { T[] items; void Fill(ref U item); }
\* class Table<T, U> { int[] sizes; List<U> rows; T[] Keys(List<T> from); }
GenericDefinitions ==
    { [ Name |-> "Pair", BaseType |-> LoadedType(tSystem_Object),
        Fields |-> << GenericParameter(0), LoadedType(tSystem_Int32) >>,
        Methods |-> << GenericMethod(GenericParameter(1), << GenericParameter(0) >>) >> ],
      [ Name |-> "Bag", BaseType |-> InstanceOf("Base", << GenericParameter(0) >>),
        Fields |-> << ArrayOf(GenericParameter(0)) >>,
        Methods |-> << GenericMethod(NullType, << ByRefOf(GenericParameter(1)) >>) >> ],
      [ Name |-> "Table", BaseType |-> LoadedType(tSystem_Object),
        Fields |-> << ArrayOf(LoadedType(tSystem_Int32)),
                      InstanceOf("List", << GenericParameter(1) >>) >>,
        Methods |-> << GenericMethod(ArrayOf(GenericParameter(0)),
                                     << InstanceOf("List", << GenericParameter(0) >>) >>) >> ] }

\* the concrete types handed over as type arguments
ExpandArgumentTypes ==
    { LoadedType(tSystem_Int32), LoadedType(tSystem_String),
      ArrayOf(LoadedType(tSystem_Int32)) }

\* a caller in front of type_make_generic(type, arguments)
ExpandInit ==
    /\ pc = "expand.call"
    /\ \E type \in GenericDefinitions, arguments \in ExpandArgumentTypes \X ExpandArgumentTypes :
          threads = [ type |-> type, arguments |-> arguments, i |-> 0, ret |-> NullType ]
    /\ shared = [ instance |-> NullType, chain |-> << >> ]
    /\ NothingElse

\* expand_type up to the base type: no instance of the chain has the arguments,
\* the new System_Type is zeroed and gets its identity, its arguments and name
ExpandCreate ==
    /\ pc = "expand.call"
    /\ type_is_generic_definition(GenericDefinition(threads.type.Name))
    /\ shared' = [shared EXCEPT !.instance =
                    [ type |-> InstanceOf(threads.type.Name, threads.arguments),
                      GenericTypeDefinition |-> threads.type.Name,
                      GenericArguments |-> threads.arguments,
                      BaseType |-> NullType,
                      Fields |-> << >>,
                      Methods |-> << >> ]]
    /\ pc' = "expand.base"
    /\ UNCHANGED threads
    /\ ElseIdle

\* GC_UPDATE(instance, BaseType, expand_type(instance->BaseType, arguments))
ExpandBaseType ==
    /\ pc = "expand.base"
    /\ shared' = [shared EXCEPT !.instance.BaseType =
                    expand_type(shared.instance.BaseType, threads.arguments)]
    /\ pc' = "expand.fields"
    /\ threads' = [threads EXCEPT !.i = 0]
    /\ ElseIdle

\* expand_field(type, field, arguments)
expand_field(type, field, arguments) ==
    [FieldType |-> expand_type(field, arguments), DeclaringType |-> type.Name]

\* expand_method(type, field, arguments)
expand_method(type, field, arguments) ==
    [ ReturnType |-> expand_type(field.ReturnType, arguments),
      Parameters |-> [k \in 1..Len(field.Parameters) |->
                        expand_type(field.Parameters[k], arguments)],
      DeclaringType |-> type.Name ]

\* the loop over type->Fields: one field each step, then on to the methods
ExpandField ==
    /\ pc = "expand.fields"
    /\ IF threads.i < Len(threads.type.Fields)
       THEN /\ shared' = [shared EXCEPT !.instance.Fields =
                            Append(@, expand_field(threads.type,
                                                   threads.type.Fields[threads.i + 1],
                                                   threads.arguments))]
            /\ threads' = [threads EXCEPT !.i = @ + 1]
            /\ UNCHANGED pc
       ELSE /\ pc' = "expand.methods"
            /\ threads' = [threads EXCEPT !.i = 0]
            /\ UNCHANGED shared
    /\ ElseIdle

\* the loop over type->Methods, then the linking of a real instance and the return
ExpandMethod ==
    /\ pc = "expand.methods"
    /\ threads.i < Len(threads.type.Methods)
    /\ shared' = [shared EXCEPT !.instance.Methods =
                    Append(@, expand_method(threads.type,
                                            threads.type.Methods[threads.i + 1],
                                            threads.arguments))]
    /\ threads' = [threads EXCEPT !.i = @ + 1]
    /\ UNCHANGED pc
    /\ ElseIdle

ExpandReturn ==
    /\ pc = "expand.methods"
    /\ threads.i >= Len(threads.type.Methods)
    /\ shared' = [shared EXCEPT !.chain =
                    IF \A k \in 1..Len(threads.arguments) : ~(threads.arguments[k].pos >= 0)
                    THEN << shared.instance.type >> \o @ ELSE @]
    /\ threads' = [threads EXCEPT !.ret = shared.instance.type]
    /\ pc' = "expand.done"
    /\ ElseIdle

ExpandNext ==
    \/ ExpandCreate \/ ExpandBaseType \/ ExpandField \/ ExpandMethod \/ ExpandReturn

SpecExpand == ExpandInit /\ [][ExpandNext]_vars

\* the types the instance's members have
MemberTypes ==
    { shared.instance.BaseType }
        \cup { shared.instance.Fields[k].FieldType : k \in 1..Len(shared.instance.Fields) }
        \cup { shared.instance.Methods[k].ReturnType : k \in 1..Len(shared.instance.Methods) }
        \cup UNION { { shared.instance.Methods[k].Parameters[n] :
                         n \in 1..Len(shared.instance.Methods[k].Parameters) } :
                     k \in 1..Len(shared.instance.Methods) }

\* C30: the instance type_make_generic(G, A) returns for concrete
\* arguments A has as BaseType G's base type expanded under A, as field types,
\* parameter types and return types those of G with every generic parameter
\* replaced by its argument, and no generic parameter is reachable from it
C30_InstanceIsSubstitutionImage ==
    pc = "expand.done" =>
        /\ shared.instance.BaseType = Substituted(threads.type.BaseType, threads.arguments)
        /\ Len(shared.instance.Fields) = Len(threads.type.Fields)
        /\ \A k \in 1..Len(threads.type.Fields) :
              shared.instance.Fields[k].FieldType
                  = Substituted(threads.type.Fields[k], threads.arguments)
        /\ Len(shared.instance.Methods) = Len(threads.type.Methods)
        /\ \A k \in 1..Len(threads.type.Methods) :
              /\ shared.instance.Methods[k].ReturnType
                    = Substituted(threads.type.Methods[k].ReturnType, threads.arguments)
              /\ shared.instance.Methods[k].Parameters
                    = [n \in 1..Len(threads.type.Methods[k].Parameters) |->
                         Substituted(threads.type.Methods[k].Parameters[n],
                                     threads.arguments)]
        /\ \A type \in MemberTypes : ~ReachesParameter(type)
=============================================================================
